---- MODULE Spec2Model ----
(***************************************************************************)
(* ClubSphere backend: membership / registration lifecycle and cascading   *)
(* club deletion, modelled at the granularity of the individual awaited    *)
(* database and payment-bridge calls of each request handler.              *)
(*                                                                         *)
(* Identifiers.  A request carries ids as strings; documents carry _id as  *)
(* ObjectId.  `new ObjectId(s)` parses a 24-digit hex string without       *)
(* regard to letter case, `objectId.toString()` prints lower-case hex and  *)
(* `s.toString()` of a string is the string itself.  An id value is a      *)
(* record [form, oid, sp]: form "str" or "oid", oid the twelve bytes, sp   *)
(* the spelling of a string ("lower" / "upper" hex digits).  Equality of   *)
(* id values is the store's typed equality.                                *)
(*                                                                         *)
(* Money is counted in hundredths of the stored unit.                      *)
(***************************************************************************)
EXTENDS Integers, Sequences, FiniteSets

\* ------------------------------------------------------------------ bounds
MaxProcs == 2        \* request handlers in flight at once
MaxRegs == 2         \* registrations ever inserted
MaxMems == 2         \* memberships ever inserted
MaxIntents == 2      \* payment intents ever created

Procs == 1..MaxProcs
Users == {"u1", "u2"}
ClubOids == {"c1"}
EventOids == {"e1"}
Spellings == {"lower", "upper"}

\* ------------------------------------------------------------- identifiers
Str(o, sp) == [form |-> "str", oid |-> o, sp |-> sp]
Oid(o) == [form |-> "oid", oid |-> o, sp |-> "lower"]
NoId == [form |-> "none", oid |-> "-", sp |-> "-"]

\* new ObjectId(x)
ObjectId(x) == Oid(x.oid)
\* x.toString()
toString(x) == IF x.form = "oid" THEN Str(x.oid, "lower") ELSE x
\* the id strings a client can send for clubs and events
ClubIdStrings == {Str(o, sp) : o \in ClubOids, sp \in Spellings}
EventIdStrings == {Str(o, sp) : o \in EventOids, sp \in Spellings}

Undef == 0 - 1

\* Instants are counted in quarters of a day; a day is 1000 * 60 * 60 * 24 ms.
DayLength == 4
MaxInstant == 10
Instants == 0..MaxInstant
\* new Date(date) of the events created: the second day, six in the morning
EventDates == {5}

\* the roles of the platform
Roles == {"admin", "clubManager", "member"}
\* the addresses accounts are opened with
Emails == {"a1", "m1", "x1"}
\* the photoURL of a body or of a document; "-" is an absent one
PhotoURLs == {"-", "p1"}
\* the documents the users collection can come to hold, in the order of insertion
MaxUsers == 3
UserIds == 1..MaxUsers
\* state: free (no document yet), live, deleted (the _id is never issued again)
NoUser == [state |-> "free", email |-> "-", role |-> "-", photoURL |-> "-"]
DeletedUser == [NoUser EXCEPT !.state = "deleted"]
\* The accounts of the admin and of the club manager whose requests are served
\* exist already.
SeedUsers == [i \in UserIds |->
                IF i = 1 THEN [state |-> "live", email |-> "a1", role |-> "admin",
                               photoURL |-> "-"]
                ELSE IF i = 2 THEN [state |-> "live", email |-> "m1",
                                    role |-> "clubManager", photoURL |-> "-"]
                ELSE NoUser]

\* expiryDate.setMonth(expiryDate.getMonth() + 1) of new Date() = now: the same day
\* and time of the next month. The instants lie in the first 28 days of a month of
\* 31 days.
OneMonthOn(now) == now + 31 * DayLength

\* the default categories, in the order of insertMany
defaultCategories ==
  <<[name |-> "sports", displayName |-> "Sports & Fitness"],
    [name |-> "tech", displayName |-> "Technology & Coding"],
    [name |-> "arts", displayName |-> "Arts & Culture"],
    [name |-> "photography", displayName |-> "Photography"],
    [name |-> "gaming", displayName |-> "Gaming"],
    [name |-> "music", displayName |-> "Music"],
    [name |-> "social", displayName |-> "Social & Networking"]>>
\* A process whose routes are initialized: connected, every router mounted once,
\* the default categories in the collection.
Running == [routesInitialized |-> TRUE, isConnected |-> TRUE, authMounted |-> 1,
            mounted |-> 1, categories |-> defaultCategories]

\* -------------------------------------------------------------------- state
VARIABLES
  clubs,          \* clubs collection: club oid -> document (exists = FALSE: absent)
  events,         \* events collection: event oid -> document
  memberships,    \* memberships collection: set of documents
  registrations,  \* registrations collection: set of documents
  intents,        \* payment bridge: sequence of intents, id = index
  nextMem,        \* next membership _id
  nextReg,        \* next registration _id
  req,            \* per handler: operation, position and local variables
  users,          \* users collection: _id -> document
  app             \* the process: its flags, the routers mounted, the categories collection

vars == <<clubs, events, memberships, registrations, intents, nextMem, nextReg, req, users,
         app>>

NoClub == [exists |-> FALSE, name |-> "-", fee |-> 0, status |-> "-",
           memberCount |-> 0, deletionRequest |-> "none", managerEmail |-> "-",
           category |-> "-"]
NoEvent == [exists |-> FALSE, clubId |-> NoId, clubName |-> "-", fee |-> Undef,
            price |-> Undef, type |-> "-", amount |-> Undef, maxAttendees |-> 0,
            status |-> "-", past |-> FALSE, date |-> 0]
\* Math.round of an amount in hundredths: the nearest whole number, in hundredths
MathRound(h) == ((h + 50) \div 100) * 100

\* n.toString() of an amount: the decimal numeral of n hundredths, its whole part
\* and its two decimals
NumberToString(n) == [whole |-> n \div 100, frac |-> n % 100]
\* parseFloat(s) of such a numeral, in hundredths
parseFloat(s) == s.whole * 100 + s.frac

NoIntent == [status |-> "-", eventId |-> NoId, clubId |-> NoId, userId |-> "-",
             type |-> "-", fee |-> NumberToString(0), serviceFee |-> NumberToString(0),
             totalAmount |-> NumberToString(0)]

Idle == [op |-> "idle", pc |-> "idle", user |-> "-", id |-> NoId, pid |-> 0, rid |-> 0,
         ev |-> NoEvent, club |-> NoClub, pi |-> NoIntent, evs |-> {},
         res |-> "-", out |-> 0, now |-> 0, mems |-> {}, regs |-> {}, list |-> {},
         tab |-> "-",
         counts |-> [upcoming |-> 0, past |-> 0, waitlist |-> 0, cancelled |-> 0],
         held |-> {}, all |-> {},
         body |-> [status |-> "-", fee |-> Undef,
                   other |-> [price |-> Undef, date |-> Undef, maxAttendees |-> Undef,
                              clubId |-> NoId]],
         email |-> "-", role |-> "-",
         at |-> "-", name |-> FALSE, photoURL |-> "-", verified |-> FALSE, uid |-> 0,
         cat |-> 0, category |-> [name |-> "-", displayName |-> "-"]]

\* A handler that has sent its response: only the request and the response are kept.
Done(r, res, out) == [Idle EXCEPT !.op = r.op, !.pc = "done", !.user = r.user,
                      !.id = r.id, !.pid = r.pid, !.rid = r.rid, !.pi = r.pi,
                      !.res = res, !.out = out]

\* A request as it arrives: req.user.userId, the target id, the payment intent id
\* and the registration id of its body or path.
Request(op, user, id, pid, rid) == [Idle EXCEPT !.op = op, !.pc = "start", !.user = user,
                                    !.id = id, !.pid = pid, !.rid = rid]

Database == <<clubs, events, memberships, registrations, nextMem, nextReg>>

\* A deleted document: its _id is never issued again.
DeletedClub == [NoClub EXCEPT !.status = "deleted"]
DeletedEvent == [NoEvent EXCEPT !.status = "deleted"]

\* -------------------------------------------------------------- store reads
\* new Date() of a request: an instant that agrees with which events are behind
Now == {t \in Instants :
          \A o \in EventOids : events[o].exists => (events[o].past <=> events[o].date < t)}

\* findOne({_id: new ObjectId(id)}) on events; every id string of the model is
\* valid hex, so the branch for other strings is not taken.
FindEvent(id) ==
  IF id.oid \in DOMAIN events /\ events[id.oid].exists THEN events[id.oid] ELSE NoEvent

\* findOne({_id: new ObjectId(id)}) on clubs
FindClub(id) ==
  IF id.oid \in DOMAIN clubs /\ clubs[id.oid].exists THEN clubs[id.oid] ELSE NoClub

\* usersCollection.findOne({email}): the _id of the first document with the
\* address, 0 when there is none
FindUser(e) ==
  IF \E i \in UserIds : users[i].state = "live" /\ users[i].email = e
  THEN CHOOSE i \in UserIds :
         /\ users[i].state = "live" /\ users[i].email = e
         /\ \A j \in UserIds : (users[j].state = "live" /\ users[j].email = e) => i <= j
  ELSE 0

\* the event's fee from its three legacy representations
EventFee(ev) ==
  IF ev.fee # Undef THEN ev.fee
  ELSE IF ev.price # Undef THEN ev.price        \* price / 100, price in cents
  ELSE IF ev.type = "Paid" /\ ev.amount # Undef /\ ev.amount # 0 THEN ev.amount
  ELSE 0

\* calculateServiceFee: 10% of the fee, at least 1.50
calculateServiceFee(fee) == IF fee \div 10 > 150 THEN fee \div 10 ELSE 150

\* findOne({userId, eventId: eventId.toString(), status: 'registered'})
ExistingRegistration(u, id) ==
  {r \in registrations : r.userId = u /\ r.eventId = toString(id) /\ r.status = "registered"}

\* countDocuments({eventId: eventId.toString(), status: 'registered'})
CountRegistered(id) ==
  Cardinality({r \in registrations : r.eventId = toString(id) /\ r.status = "registered"})

\* findOne({userId, clubId: clubId.toString(), status: {$in: ['active', 'pending']}})
ExistingMembership(u, id) ==
  {m \in memberships : m.userId = u /\ m.clubId = toString(id)
                        /\ m.status \in {"active", "pending"}}

\* stripe.paymentIntents.retrieve(id); an unknown id makes the bridge throw
RetrieveIntent(pid) == IF pid \in DOMAIN intents THEN intents[pid] ELSE NoIntent

\* ------------------------------------------------- event registration, free
\* POST /register-free, to the first await: the event is read and checked.
RegisterFreeFindEvent(p) ==
  /\ req[p].op = "idle"
  /\ \E u \in Users, id \in EventIdStrings :
       LET r == Request("registerFree", u, id, 0, 0)
           ev == FindEvent(id)
       IN req' = [req EXCEPT ![p] =
            IF ~ev.exists THEN Done(r, "404 Event not found", 0)
            ELSE IF ev.status = "cancelled" THEN Done(r, "400 Event is cancelled", 0)
            ELSE IF EventFee(ev) > 0
              THEN Done(r, "400 Event is not free, use payment flow", 0)
            ELSE [r EXCEPT !.pc = "existing", !.ev = ev]]
  /\ UNCHANGED <<app, users, Database, intents>>

\* the duplicate pre-check
RegisterFreeExisting(p) ==
  /\ req[p].op = "registerFree" /\ req[p].pc = "existing"
  /\ LET r == req[p] IN
       req' = [req EXCEPT ![p] =
         IF ExistingRegistration(r.user, r.id) # {}
           THEN Done(r, "400 You are already registered for this event", 0)
         ELSE IF r.ev.maxAttendees # 0 THEN [r EXCEPT !.pc = "count"]
         ELSE [r EXCEPT !.pc = "insert"]]
  /\ UNCHANGED <<app, users, Database, intents>>

\* the capacity check
RegisterFreeCount(p) ==
  /\ req[p].op = "registerFree" /\ req[p].pc = "count"
  /\ LET r == req[p] IN
       req' = [req EXCEPT ![p] =
         IF CountRegistered(r.id) >= r.ev.maxAttendees
           THEN Done(r, "400 Event is full", 0)
         ELSE [r EXCEPT !.pc = "insert"]]
  /\ UNCHANGED <<app, users, Database, intents>>

FreeRegistration(rid, u, id) ==
  [id |-> rid, userId |-> u, eventId |-> toString(id), status |-> "registered",
   paymentStatus |-> "free", paymentIntentId |-> 0, amount |-> 0, eventFee |-> 0,
   serviceFee |-> 0, cancelledAt |-> 0]

\* insertOne(registration) and the response
RegisterFreeInsert(p) ==
  /\ req[p].op = "registerFree" /\ req[p].pc = "insert"
  /\ nextReg <= MaxRegs
  /\ registrations' = registrations \cup {FreeRegistration(nextReg, req[p].user, req[p].id)}
  /\ nextReg' = nextReg + 1
  /\ req' = [req EXCEPT ![p] = Done(req[p], "ok", nextReg)]
  /\ UNCHANGED <<app, users, clubs, events, memberships, nextMem, intents>>

\* ------------------------------------------------- event registration, paid
\* POST /create-intent, to the first await (the payment bridge is configured)
CreateIntentFindEvent(p) ==
  /\ req[p].op = "idle"
  /\ \E u \in Users, id \in EventIdStrings :
       LET r == Request("createIntent", u, id, 0, 0)
           ev == FindEvent(id)
       IN req' = [req EXCEPT ![p] =
            IF ~ev.exists THEN Done(r, "404 Event not found", 0)
            ELSE IF ev.status = "cancelled" THEN Done(r, "400 Event is cancelled", 0)
            ELSE [r EXCEPT !.pc = "existing", !.ev = ev]]
  /\ UNCHANGED <<app, users, Database, intents>>

\* what follows the last pre-check: the fee decides whether an intent is asked for
CreateIntentFeeUnchecked(r) == [r EXCEPT !.pc = "stripe"]

\* the fee computed and checked after the duplicate and capacity checks
CreateIntentFee(r) ==
  IF EventFee(r.ev) <= 0 THEN Done(r, "400 Event is free, use direct registration", 0)
  ELSE [r EXCEPT !.pc = "stripe"]

CreateIntentExisting(p) ==
  /\ req[p].op = "createIntent" /\ req[p].pc = "existing"
  /\ LET r == req[p] IN
       req' = [req EXCEPT ![p] =
         IF ExistingRegistration(r.user, r.id) # {}
           THEN Done(r, "400 You are already registered for this event", 0)
         ELSE IF r.ev.maxAttendees # 0 THEN [r EXCEPT !.pc = "count"]
         ELSE CreateIntentFee(r)]
  /\ UNCHANGED <<app, users, Database, intents>>

CreateIntentCount(p) ==
  /\ req[p].op = "createIntent" /\ req[p].pc = "count"
  /\ LET r == req[p] IN
       req' = [req EXCEPT ![p] =
         IF CountRegistered(r.id) >= r.ev.maxAttendees
           THEN Done(r, "400 Event is full", 0)
         ELSE CreateIntentFee(r)]
  /\ UNCHANGED <<app, users, Database, intents>>

EventIntent(u, id, fee) ==
  [status |-> "requires_payment_method", eventId |-> toString(id), clubId |-> NoId,
   userId |-> u, type |-> "-", fee |-> NumberToString(fee),
   serviceFee |-> NumberToString(calculateServiceFee(fee)),
   totalAmount |-> NumberToString(fee + calculateServiceFee(fee))]

\* stripe.paymentIntents.create and the response
CreateIntentStripe(p) ==
  /\ req[p].op = "createIntent" /\ req[p].pc = "stripe"
  /\ Len(intents) < MaxIntents
  /\ intents' = Append(intents, EventIntent(req[p].user, req[p].id, EventFee(req[p].ev)))
  /\ req' = [req EXCEPT ![p] = Done([req[p] EXCEPT !.pid = Len(intents) + 1], "ok", 0)]
  /\ UNCHANGED <<app, users, Database>>

\* The payer completes the payment at the bridge.
PaymentSucceeds ==
  /\ \E i \in DOMAIN intents :
       /\ intents[i].status = "requires_payment_method"
       /\ intents' = [intents EXCEPT ![i].status = "succeeded"]
  /\ UNCHANGED <<app, users, Database, req>>

\* the intent's metadata against the request
IntentMismatch(pi, id, u) == pi.eventId # toString(id) \/ pi.userId # u

\* POST /confirm, to the first store read: the intent is retrieved and checked
ConfirmRetrieve(p) ==
  /\ req[p].op = "idle"
  /\ \E u \in Users, id \in EventIdStrings, pid \in 1..MaxIntents :
       LET r == Request("confirm", u, id, pid, 0)
           pi == RetrieveIntent(pid)
       IN req' = [req EXCEPT ![p] =
            IF pid \notin DOMAIN intents THEN Done(r, "500 Failed to confirm payment", 0)
            ELSE IF pi.status # "succeeded"
              THEN Done([r EXCEPT !.pi = pi], "400 Payment not completed", 0)
            ELSE IF IntentMismatch(pi, id, u)
              THEN Done([r EXCEPT !.pi = pi], "400 Payment intent mismatch", 0)
            ELSE [r EXCEPT !.pc = "existing", !.pi = pi]]
  /\ UNCHANGED <<app, users, Database, intents>>

ConfirmExisting(p) ==
  /\ req[p].op = "confirm" /\ req[p].pc = "existing"
  /\ LET r == req[p] IN
       req' = [req EXCEPT ![p] =
         IF ExistingRegistration(r.user, r.id) # {}
           THEN Done(r, "400 Registration already exists", 0)
         ELSE [r EXCEPT !.pc = "event"]]
  /\ UNCHANGED <<app, users, Database, intents>>

ConfirmFindEvent(p) ==
  /\ req[p].op = "confirm" /\ req[p].pc = "event"
  /\ LET r == req[p] IN
       req' = [req EXCEPT ![p] =
         IF ~FindEvent(r.id).exists THEN Done(r, "404 Event not found", 0)
         ELSE [r EXCEPT !.pc = "insert"]]
  /\ UNCHANGED <<app, users, Database, intents>>

PaidRegistration(rid, u, id, pid, pi) ==
  [id |-> rid, userId |-> u, eventId |-> toString(id), status |-> "registered",
   paymentStatus |-> "paid", paymentIntentId |-> pid,
   amount |-> parseFloat(pi.totalAmount), eventFee |-> parseFloat(pi.fee),
   serviceFee |-> parseFloat(pi.serviceFee), cancelledAt |-> 0]

ConfirmInsert(p) ==
  /\ req[p].op = "confirm" /\ req[p].pc = "insert"
  /\ nextReg <= MaxRegs
  /\ registrations' = registrations \cup
       {PaidRegistration(nextReg, req[p].user, req[p].id, req[p].pid, req[p].pi)}
  /\ nextReg' = nextReg + 1
  /\ req' = [req EXCEPT ![p] = Done(req[p], "ok", nextReg)]
  /\ UNCHANGED <<app, users, clubs, events, memberships, nextMem, intents>>

\* ------------------------------------------------------------- cancellation
\* DELETE /events/:registrationId/cancel, to the first await
AlreadyCancelledUnchecked(x) == FALSE

\* if (registration.status === 'cancelled')
AlreadyCancelled(x) == x.status = "cancelled"

PastEventUnchecked(ev) == FALSE

\* if (event && event.date) { if (new Date(event.date) < new Date()) ... }
PastEvent(ev) == ev.exists /\ ev.past

CancelFindRegistration(p) ==
  /\ req[p].op = "idle"
  /\ \E u \in Users, rid \in 1..MaxRegs :
       LET r == Request("cancel", u, NoId, 0, rid)
           found == {x \in registrations : x.id = rid /\ x.userId = u}
       IN req' = [req EXCEPT ![p] =
            IF found = {} THEN Done(r, "404 Registration not found", 0)
            ELSE LET x == CHOOSE x \in found : TRUE IN
              IF AlreadyCancelled(x)
                THEN Done(r, "400 Registration is already cancelled", 0)
              ELSE [r EXCEPT !.pc = "event", !.id = x.eventId]]
  /\ UNCHANGED <<app, users, Database, intents>>

\* the event is read by new ObjectId(registration.eventId); a past event refuses
CancelFindEvent(p) ==
  /\ req[p].op = "cancel" /\ req[p].pc = "event"
  /\ LET r == req[p]
         ev == FindEvent(ObjectId(r.id))
     IN req' = [req EXCEPT ![p] =
          IF PastEvent(ev)
            THEN Done(r, "400 Cannot cancel registration for past events", 0)
          ELSE [r EXCEPT !.pc = "update"]]
  /\ UNCHANGED <<app, users, Database, intents>>

\* updateOne({_id}, {$set: {status: 'cancelled', cancelledAt: new Date(), ...}}).
\* cancelledAt is 0 while unset; each write stores the time of the write, a value
\* other than the one stored before, counted here as the number of the write.
CancelUpdate(p) ==
  /\ req[p].op = "cancel" /\ req[p].pc = "update"
  /\ registrations' = {IF x.id = req[p].rid
                          THEN [x EXCEPT !.status = "cancelled", !.cancelledAt = @ + 1]
                          ELSE x
                        : x \in registrations}
  /\ req' = [req EXCEPT ![p] = Done(req[p], "ok", 0)]
  /\ UNCHANGED <<app, users, clubs, events, memberships, nextMem, nextReg, intents>>

\* The response has been delivered; the handler slot is free again.
Respond(p) ==
  /\ req[p].pc = "done"
  /\ req' = [req EXCEPT ![p] = Idle]
  /\ UNCHANGED <<app, users, Database, intents>>

\* ------------------------------------------------------ club membership, free
\* club.status && club.status !== 'active'
ClubUnavailable(club) == club.status # "-" /\ club.status # "active"

\* POST /club/register-free, to the first await: the club is read and checked
ClubRegisterFreeFindClub(p) ==
  /\ req[p].op = "idle"
  /\ \E u \in Users, id \in ClubIdStrings :
       LET r == Request("clubRegisterFree", u, id, 0, 0)
           club == FindClub(id)
       IN req' = [req EXCEPT ![p] =
            IF ~club.exists THEN Done(r, "404 Club not found", 0)
            ELSE IF ClubUnavailable(club) THEN Done(r, "400 Club is not available", 0)
            ELSE IF club.fee > 0 THEN Done(r, "400 Club is not free, use payment flow", 0)
            ELSE [r EXCEPT !.pc = "existing", !.club = club]]
  /\ UNCHANGED <<app, users, Database, intents>>

ClubRegisterFreeExisting(p) ==
  /\ req[p].op = "clubRegisterFree" /\ req[p].pc = "existing"
  /\ LET r == req[p] IN
       req' = [req EXCEPT ![p] =
         IF ExistingMembership(r.user, r.id) # {}
           THEN Done(r, "400 You are already a member of this club", 0)
         ELSE [r EXCEPT !.pc = "insert", !.club = NoClub]]
  /\ UNCHANGED <<app, users, Database, intents>>

FreeMembership(mid, u, id) ==
  [id |-> mid, userId |-> u, clubId |-> toString(id), status |-> "active",
   paymentStatus |-> "free", paymentIntentId |-> 0, amount |-> 0, membershipFee |-> 0,
   serviceFee |-> 0, expiryDate |-> Undef]

ClubRegisterFreeInsert(p) ==
  /\ req[p].op = "clubRegisterFree" /\ req[p].pc = "insert"
  /\ nextMem <= MaxMems
  /\ memberships' = memberships \cup {FreeMembership(nextMem, req[p].user, req[p].id)}
  /\ nextMem' = nextMem + 1
  /\ req' = [req EXCEPT ![p].pc = "inc", ![p].out = nextMem]
  /\ UNCHANGED <<app, users, clubs, events, registrations, nextReg, intents>>

\* the counter update left out
IncMemberCountSkipped(id) == clubs

\* updateOne({_id: new ObjectId(clubId)}, {$inc: {memberCount: 1}}); no match, no change
IncMemberCount(id) ==
  IF id.oid \in DOMAIN clubs /\ clubs[id.oid].exists
    THEN [clubs EXCEPT ![id.oid].memberCount = @ + 1]
    ELSE clubs

ClubRegisterFreeInc(p) ==
  /\ req[p].op = "clubRegisterFree" /\ req[p].pc = "inc"
  /\ clubs' = IncMemberCount(req[p].id)
  /\ req' = [req EXCEPT ![p] = Done(req[p], "ok", req[p].out)]
  /\ UNCHANGED <<app, users, events, memberships, registrations, nextMem, nextReg, intents>>

\* ------------------------------------------------------ club membership, paid
\* POST /club/create-intent, to the first await
ClubCreateIntentFindClub(p) ==
  /\ req[p].op = "idle"
  /\ \E u \in Users, id \in ClubIdStrings :
       LET r == Request("clubCreateIntent", u, id, 0, 0)
           club == FindClub(id)
       IN req' = [req EXCEPT ![p] =
            IF ~club.exists THEN Done(r, "404 Club not found", 0)
            ELSE IF ClubUnavailable(club) THEN Done(r, "400 Club is not available", 0)
            ELSE [r EXCEPT !.pc = "existing", !.club = club]]
  /\ UNCHANGED <<app, users, Database, intents>>

ClubCreateIntentExisting(p) ==
  /\ req[p].op = "clubCreateIntent" /\ req[p].pc = "existing"
  /\ LET r == req[p] IN
       req' = [req EXCEPT ![p] =
         IF ExistingMembership(r.user, r.id) # {}
           THEN Done(r, "400 You are already a member of this club", 0)
         ELSE IF r.club.fee <= 0
           THEN Done(r, "400 Club is free, use direct registration", 0)
         ELSE [r EXCEPT !.pc = "stripe"]]
  /\ UNCHANGED <<app, users, Database, intents>>

ClubIntent(u, id, fee) ==
  [status |-> "requires_payment_method", eventId |-> NoId, clubId |-> toString(id),
   userId |-> u, type |-> "club_membership", fee |-> NumberToString(fee),
   serviceFee |-> NumberToString(calculateServiceFee(fee)),
   totalAmount |-> NumberToString(fee + calculateServiceFee(fee))]

ClubCreateIntentStripe(p) ==
  /\ req[p].op = "clubCreateIntent" /\ req[p].pc = "stripe"
  /\ Len(intents) < MaxIntents
  /\ intents' = Append(intents, ClubIntent(req[p].user, req[p].id, req[p].club.fee))
  /\ req' = [req EXCEPT ![p] = Done([req[p] EXCEPT !.pid = Len(intents) + 1], "ok", 0)]
  /\ UNCHANGED <<app, users, Database>>

\* the comparison of the intent's user left out
ClubIntentMismatchNoUser(pi, id, u) ==
  pi.clubId # toString(id) \/ pi.type # "club_membership"

\* the intent's metadata against the request
ClubIntentMismatch(pi, id, u) ==
  pi.clubId # toString(id) \/ pi.userId # u \/ pi.type # "club_membership"

\* POST /club/confirm, to the first store read: the intent is retrieved and checked
ClubConfirmRetrieve(p) ==
  /\ req[p].op = "idle"
  /\ \E u \in Users, id \in ClubIdStrings, pid \in 1..MaxIntents :
       LET r == Request("clubConfirm", u, id, pid, 0)
           pi == RetrieveIntent(pid)
       IN req' = [req EXCEPT ![p] =
            IF pid \notin DOMAIN intents THEN Done(r, "500 Failed to confirm payment", 0)
            ELSE IF pi.status # "succeeded"
              THEN Done([r EXCEPT !.pi = pi], "400 Payment not completed", 0)
            ELSE IF ClubIntentMismatch(pi, id, u)
              THEN Done([r EXCEPT !.pi = pi], "400 Payment intent mismatch", 0)
            ELSE [r EXCEPT !.pc = "existing", !.pi = pi]]
  /\ UNCHANGED <<app, users, Database, intents>>

ClubConfirmExisting(p) ==
  /\ req[p].op = "clubConfirm" /\ req[p].pc = "existing"
  /\ LET r == req[p] IN
       req' = [req EXCEPT ![p] =
         IF ExistingMembership(r.user, r.id) # {}
           THEN Done(r, "400 Membership already exists", 0)
         ELSE [r EXCEPT !.pc = "club"]]
  /\ UNCHANGED <<app, users, Database, intents>>

ClubConfirmFindClub(p) ==
  /\ req[p].op = "clubConfirm" /\ req[p].pc = "club"
  /\ LET r == req[p] IN
       IF ~FindClub(r.id).exists
         THEN req' = [req EXCEPT ![p] = Done(r, "404 Club not found", 0)]
       ELSE \E t \in Now : req' = [req EXCEPT ![p] = [r EXCEPT !.pc = "insert", !.now = t]]
  /\ UNCHANGED <<app, users, Database, intents>>

\* the membership with its amounts computed again from the club's present fee
PaidMembershipRecomputed(mid, u, id, pid, pi, now) ==
  LET fee == FindClub(id).fee IN
    [id |-> mid, userId |-> u, clubId |-> toString(id), status |-> "active",
     paymentStatus |-> "paid", paymentIntentId |-> pid,
     amount |-> fee + calculateServiceFee(fee), membershipFee |-> fee,
     serviceFee |-> calculateServiceFee(fee), expiryDate |-> OneMonthOn(now)]

PaidMembership(mid, u, id, pid, pi, now) ==
  [id |-> mid, userId |-> u, clubId |-> toString(id), status |-> "active",
   paymentStatus |-> "paid", paymentIntentId |-> pid,
   amount |-> parseFloat(pi.totalAmount), membershipFee |-> parseFloat(pi.fee),
   serviceFee |-> parseFloat(pi.serviceFee), expiryDate |-> OneMonthOn(now)]

ClubConfirmInsert(p) ==
  /\ req[p].op = "clubConfirm" /\ req[p].pc = "insert"
  /\ nextMem <= MaxMems
  /\ memberships' = memberships \cup
       {PaidMembership(nextMem, req[p].user, req[p].id, req[p].pid, req[p].pi,
                       req[p].now)}
  /\ nextMem' = nextMem + 1
  /\ req' = [req EXCEPT ![p].pc = "inc", ![p].out = nextMem]
  /\ UNCHANGED <<app, users, clubs, events, registrations, nextReg, intents>>

ClubConfirmInc(p) ==
  /\ req[p].op = "clubConfirm" /\ req[p].pc = "inc"
  /\ clubs' = IncMemberCount(req[p].id)
  /\ req' = [req EXCEPT ![p] = Done(req[p], "ok", req[p].out)]
  /\ UNCHANGED <<app, users, events, memberships, registrations, nextMem, nextReg, intents>>

\* ------------------------------------------------------ clubs and events
ClubNames == {"n1"}
\* the category of the bodies of POST and PUT /admin/clubs
ClubCategory == "sports"
Managers == {"m1"}
Fees == {0, 500}

\* the _id insertOne gives a new document
NewClubOid == CHOOSE o \in ClubOids : clubs[o] = NoClub
NewEventOid == CHOOSE o \in EventOids : events[o] = NoEvent

\* the managerEmail of the bodies the admin sends: a registered manager and an
\* address without an account
ManagerEmails == Managers \cup {"x1"}

\* POST /admin/clubs, to the first await, usersCollection.findOne({email:
\* managerEmail}): the manager must be a registered user
AdminCreateClubFindManager(p) ==
  /\ req[p].op = "idle"
  /\ \E o \in ClubOids : clubs[o] = NoClub
  /\ \E n \in ClubNames, m \in ManagerEmails, f \in Fees :
       LET r == Request("adminCreateClub", "-", NoId, 0, 0) IN
       req' = [req EXCEPT ![p] =
         IF FindUser(m) = 0
           THEN Done(r, "400 Manager email not found. User must be registered first.", 0)
         ELSE [r EXCEPT !.pc = "insert", !.club =
                 [exists |-> TRUE, name |-> n, fee |-> f, status |-> "active",
                  memberCount |-> 0, deletionRequest |-> "none", managerEmail |-> m,
                  category |-> ClubCategory]]]
  /\ UNCHANGED <<app, users, Database, intents>>

\* POST /admin/clubs: clubsCollection.insertOne(club); the club is active at once
AdminCreateClubInsert(p) ==
  /\ req[p].op = "adminCreateClub" /\ req[p].pc = "insert"
  /\ \E o \in ClubOids : clubs[o] = NoClub
  /\ clubs' = [clubs EXCEPT ![NewClubOid] = req[p].club]
  /\ req' = [req EXCEPT ![p] = Done([req[p] EXCEPT !.id = Oid(NewClubOid)], "ok", 0)]
  /\ UNCHANGED <<app, users, events, memberships, registrations, nextMem, nextReg, intents>>

\* the statuses PUT /admin/clubs/:id accepts
ClubStatuses == {"active", "inactive", "pending", "rejected"}

\* the bodies of PUT /admin/clubs/:id; "-" and Undef are absent fields, and
\* description, category and location are given whenever the name is
AdminClubBodies == [status : {"-", "pending", "rejected", "archived"}, fee : {Undef, 500},
                    managerEmail : {"-"} \cup ManagerEmails, name : {"-"} \cup ClubNames]

\* PUT /admin/clubs/:id, to the first await: the body is validated and the club read
AdminUpdateClubFind(p) ==
  /\ req[p].op = "idle"
  /\ \E id \in ClubIdStrings, body \in AdminClubBodies :
       LET r == Request("adminUpdateClub", "-", id, 0, 0)
           club == FindClub(id)
       IN req' = [req EXCEPT ![p] =
            IF body.status = "-" /\ (body.name = "-" \/ body.managerEmail = "-")
              THEN Done(r, "400 Name, description, category, location, and manager email are required", 0)
            ELSE IF body.status # "-" /\ body.status \notin ClubStatuses
              THEN Done(r, "400 Invalid status", 0)
            ELSE IF ~club.exists THEN Done(r, "404 Club not found", 0)
            ELSE [r EXCEPT !.pc = IF body.managerEmail # "-"
                                     /\ body.managerEmail # club.managerEmail
                                  THEN "manager" ELSE "update",
                           !.club = [NoClub EXCEPT !.status = body.status,
                                       !.fee = body.fee, !.name = body.name,
                                       !.managerEmail = body.managerEmail]]]
  /\ UNCHANGED <<app, users, Database, intents>>

\* PUT /admin/clubs/:id: usersCollection.findOne({email: managerEmail}) when the
\* manager is changed
AdminUpdateClubFindManager(p) ==
  /\ req[p].op = "adminUpdateClub" /\ req[p].pc = "manager"
  /\ req' = [req EXCEPT ![p] =
       IF FindUser(req[p].club.managerEmail) = 0
         THEN Done(req[p], "400 Manager email not found. User must be registered first.", 0)
       ELSE [req[p] EXCEPT !.pc = "update"]]
  /\ UNCHANGED <<app, users, Database, intents>>

\* PUT /admin/clubs/:id: updateOne({_id}, {$set: updateData}) with the fields given
AdminUpdateClubSet(p) ==
  /\ req[p].op = "adminUpdateClub" /\ req[p].pc = "update"
  /\ LET o == req[p].id.oid
         body == req[p].club
     IN IF clubs[o].exists
          THEN /\ clubs' = [clubs EXCEPT
                   ![o].name = IF body.name = "-" THEN @ ELSE body.name,
                   ![o].category = IF body.name = "-" THEN @ ELSE ClubCategory,
                   ![o].fee = IF body.fee = Undef THEN @ ELSE body.fee,
                   ![o].managerEmail = IF body.managerEmail = "-" THEN @
                                       ELSE body.managerEmail,
                   ![o].status = IF body.status = "-" THEN @ ELSE body.status]
               /\ req' = [req EXCEPT ![p] = Done(req[p], "ok", 0)]
          ELSE /\ clubs' = clubs
               /\ req' = [req EXCEPT ![p] = Done(req[p], "404 Club not found", 0)]
  /\ UNCHANGED <<app, users, events, memberships, registrations, nextMem, nextReg, intents>>

\* updateOne({_id}, {$set: {status, updatedAt}}) of the two handlers below
SetClubStatus(p, op, status) ==
  /\ req[p].op = "idle"
  /\ \E id \in ClubIdStrings :
       LET r == Request(op, "-", id, 0, 0) IN
       IF FindClub(id).exists
         THEN /\ clubs' = [clubs EXCEPT ![id.oid].status = status]
              /\ req' = [req EXCEPT ![p] = Done(r, "ok", 0)]
         ELSE /\ clubs' = clubs
              /\ req' = [req EXCEPT ![p] = Done(r, "404 Club not found", 0)]
  /\ UNCHANGED <<app, users, events, memberships, registrations, nextMem, nextReg, intents>>

\* PUT /admin/clubs/:id/approve
AdminApproveClub(p) == SetClubStatus(p, "approveClub", "active")

\* PUT /admin/clubs/:id/reject
AdminRejectClub(p) == SetClubStatus(p, "rejectClub", "rejected")

\* POST /admin/events, to the first await: the club must exist
AdminCreateEventFindClub(p) ==
  /\ req[p].op = "idle"
  /\ \E o \in EventOids : events[o] = NoEvent
  /\ \E id \in ClubIdStrings, type \in {"paid", "free"}, f \in Fees \ {0},
        max \in {0, 1}, d \in EventDates :
       LET r == Request("adminCreateEvent", "-", id, 0, 0)
           club == FindClub(id)
       IN req' = [req EXCEPT ![p] =
            IF ~club.exists THEN Done(r, "400 Club not found", 0)
            ELSE [r EXCEPT !.pc = "insert", !.ev =
                   [exists |-> TRUE, clubId |-> ObjectId(id), clubName |-> club.name,
                    fee |-> IF type = "paid" THEN f ELSE 0, price |-> Undef,
                    type |-> IF type = "paid" THEN "Paid" ELSE "Free", amount |-> Undef,
                    maxAttendees |-> max, status |-> "active", past |-> FALSE,
                    date |-> d]]]
  /\ UNCHANGED <<app, users, Database, intents>>

AdminCreateEventInsert(p) ==
  /\ req[p].op = "adminCreateEvent" /\ req[p].pc = "insert"
  /\ \E o \in EventOids : events[o] = NoEvent
  /\ events' = [events EXCEPT ![NewEventOid] = req[p].ev]
  /\ req' = [req EXCEPT ![p] = Done(req[p], "ok", 0)]
  /\ UNCHANGED <<app, users, clubs, memberships, registrations, nextMem, nextReg, intents>>

\* POST /manager/events, to the first await: the club must be the manager's own
ManagerCreateEventFindClub(p) ==
  /\ req[p].op = "idle"
  /\ \E o \in EventOids : events[o] = NoEvent
  /\ \E m \in Managers, id \in ClubIdStrings, price \in Fees, max \in {0, 1},
        d \in EventDates :
       LET r == Request("managerCreateEvent", m, id, 0, 0)
           club == FindClub(id)
       IN req' = [req EXCEPT ![p] =
            IF ~club.exists \/ club.managerEmail # m
              THEN Done(r, "404 Club not found or access denied", 0)
            ELSE [r EXCEPT !.pc = "insert", !.ev =
                   [exists |-> TRUE, clubId |-> id, clubName |-> club.name,
                    fee |-> Undef,
                    price |-> IF price # 0 THEN MathRound(price * 100) \div 100 ELSE 0,
                    type |-> "-", amount |-> Undef,
                    maxAttendees |-> max, status |-> "active", past |-> FALSE,
                    date |-> d]]]
  /\ UNCHANGED <<app, users, Database, intents>>

ManagerCreateEventInsert(p) ==
  /\ req[p].op = "managerCreateEvent" /\ req[p].pc = "insert"
  /\ \E o \in EventOids : events[o] = NoEvent
  /\ events' = [events EXCEPT ![NewEventOid] = req[p].ev]
  /\ req' = [req EXCEPT ![p] = Done(req[p], "ok", 0)]
  /\ UNCHANGED <<app, users, clubs, memberships, registrations, nextMem, nextReg, intents>>

\* ------------------------------------------------------- deletion requests
\* DELETE /manager/clubs/:id, to the first await
RequestDeletionCheck(club, m) ==
  IF ~club.exists \/ club.managerEmail # m THEN "404 Club not found or access denied"
  ELSE IF club.deletionRequest = "pending"
    THEN "400 Deletion request already pending for this club"
  ELSE ""

\* the club managers who send deletion requests: the owners and one who owns no club
Requesters == Managers \cup {"m2"}

RequestDeletionFindClub(p) ==
  /\ req[p].op = "idle"
  /\ \E m \in Requesters, id \in ClubIdStrings :
       LET r == Request("requestDeletion", m, id, 0, 0)
           club == FindClub(id)
       IN req' = [req EXCEPT ![p] =
            IF RequestDeletionCheck(club, m) # "" THEN Done(r, RequestDeletionCheck(club, m), 0)
            ELSE [r EXCEPT !.pc = "update"]]
  /\ UNCHANGED <<app, users, Database, intents>>

RequestDeletionUpdate(p) ==
  /\ req[p].op = "requestDeletion" /\ req[p].pc = "update"
  /\ LET o == req[p].id.oid IN
       IF clubs[o].exists
         THEN /\ clubs' = [clubs EXCEPT ![o].deletionRequest = "pending"]
              /\ req' = [req EXCEPT ![p] = Done(req[p], "ok", 0)]
         ELSE /\ clubs' = clubs
              /\ req' = [req EXCEPT ![p] = Done(req[p], "404 Club not found", 0)]
  /\ UNCHANGED <<app, users, events, memberships, registrations, nextMem, nextReg, intents>>

\* PUT /admin/clubs/:id/reject-deletion, to the first await
RejectDeletionFindClub(p) ==
  /\ req[p].op = "idle"
  /\ \E id \in ClubIdStrings :
       LET r == Request("rejectDeletion", "-", id, 0, 0)
           club == FindClub(id)
       IN req' = [req EXCEPT ![p] =
            IF ~club.exists THEN Done(r, "404 Club not found", 0)
            ELSE IF club.deletionRequest # "pending"
              THEN Done(r, "400 No pending deletion request found for this club", 0)
            ELSE [r EXCEPT !.pc = "update"]]
  /\ UNCHANGED <<app, users, Database, intents>>

DeletionRequestKept(o) == clubs

\* updateOne({_id}, {$unset: {deletionRequest: ''}, $set: {updatedAt}})
DeletionRequestUnset(o) == [clubs EXCEPT ![o].deletionRequest = "none"]

RejectDeletionUpdate(p) ==
  /\ req[p].op = "rejectDeletion" /\ req[p].pc = "update"
  /\ LET o == req[p].id.oid IN
       IF clubs[o].exists
         THEN /\ clubs' = DeletionRequestUnset(o)
              /\ req' = [req EXCEPT ![p] = Done(req[p], "ok", 0)]
         ELSE /\ clubs' = clubs
              /\ req' = [req EXCEPT ![p] = Done(req[p], "404 Club not found", 0)]
  /\ UNCHANGED <<app, users, events, memberships, registrations, nextMem, nextReg, intents>>

\* ------------------------------------------------------- cascading deletion
\* {$or: [{clubId: id}, {clubId: new ObjectId(id)}, {clubName: club.name}]}
EventsOfClub(id, name) ==
  {o \in DOMAIN events : /\ events[o].exists
                     /\ \/ events[o].clubId = id
                        \/ events[o].clubId = ObjectId(id)
                        \/ events[o].clubName = name}

\* {$or: [{eventId: {$in: eventIdStrings}}, {eventId: {$in: eventIds}}]}
RegistrationsOfEvents(evs) ==
  {r \in registrations : \/ r.eventId \in {toString(Oid(o)) : o \in evs}
                         \/ r.eventId \in {Oid(o) : o \in evs}}

\* {clubId: id}
MembershipsOfClub(id) == {m \in memberships : m.clubId = id}

\* PUT /admin/clubs/:id/approve-deletion, to the first await
ApproveDeletionFindClub(p) ==
  /\ req[p].op = "idle"
  /\ \E id \in ClubIdStrings :
       LET r == Request("approveDeletion", "-", id, 0, 0)
           club == FindClub(id)
       IN req' = [req EXCEPT ![p] =
            IF ~club.exists THEN Done(r, "404 Club not found", 0)
            ELSE IF club.deletionRequest # "pending"
              THEN Done(r, "400 No pending deletion request found for this club", 0)
            ELSE [r EXCEPT !.pc = "events", !.club = club]]
  /\ UNCHANGED <<app, users, Database, intents>>

\* eventsToDelete = find(...).toArray()
ApproveDeletionFindEvents(p) ==
  /\ req[p].op = "approveDeletion" /\ req[p].pc = "events"
  /\ LET evs == EventsOfClub(req[p].id, req[p].club.name) IN
       req' = [req EXCEPT ![p].evs = evs,
                          ![p].pc = IF evs # {} THEN "registrations" ELSE "deleteEvents"]
  /\ UNCHANGED <<app, users, Database, intents>>

ApproveDeletionRegistrations(p) ==
  /\ req[p].op = "approveDeletion" /\ req[p].pc = "registrations"
  /\ registrations' = registrations \ RegistrationsOfEvents(req[p].evs)
  /\ req' = [req EXCEPT ![p].pc = "deleteEvents"]
  /\ UNCHANGED <<app, users, clubs, events, memberships, nextMem, nextReg, intents>>

ApproveDeletionEvents(p) ==
  /\ req[p].op = "approveDeletion" /\ req[p].pc = "deleteEvents"
  /\ events' = [o \in DOMAIN events |->
                  IF o \in EventsOfClub(req[p].id, req[p].club.name)
                    THEN DeletedEvent ELSE events[o]]
  /\ req' = [req EXCEPT ![p].pc = "memberships"]
  /\ UNCHANGED <<app, users, clubs, memberships, registrations, nextMem, nextReg, intents>>

ApproveDeletionMemberships(p) ==
  /\ req[p].op = "approveDeletion" /\ req[p].pc = "memberships"
  /\ memberships' = memberships \ MembershipsOfClub(req[p].id)
  /\ req' = [req EXCEPT ![p].pc = "club"]
  /\ UNCHANGED <<app, users, clubs, events, registrations, nextMem, nextReg, intents>>

ApproveDeletionClub(p) ==
  /\ req[p].op = "approveDeletion" /\ req[p].pc = "club"
  /\ LET o == req[p].id.oid IN
       IF clubs[o].exists
         THEN /\ clubs' = [clubs EXCEPT ![o] = DeletedClub]
              /\ req' = [req EXCEPT ![p] = [Done(req[p], "ok", 0) EXCEPT
                                              !.club = req[p].club, !.evs = req[p].evs]]
         ELSE /\ clubs' = clubs
              /\ req' = [req EXCEPT ![p] = Done(req[p], "404 Club not found", 0)]
  /\ UNCHANGED <<app, users, events, memberships, registrations, nextMem, nextReg, intents>>

\* Time passes: the date of an upcoming event is now behind.
EventPasses ==
  /\ \E o \in EventOids :
       /\ events[o].exists /\ ~events[o].past
       /\ events' = [events EXCEPT ![o].past = TRUE]
  /\ UNCHANGED <<app, users, clubs, memberships, registrations, nextMem, nextReg, intents, req>>

\* ------------------------------------------------------------ specifications
Init ==
  /\ app = Running
  /\ users = SeedUsers
  /\ clubs = [o \in ClubOids |-> NoClub]
  /\ events = [o \in EventOids |-> NoEvent]
  /\ memberships = {}
  /\ registrations = {}
  /\ intents = <<>>
  /\ nextMem = 1
  /\ nextReg = 1
  /\ req = [p \in Procs |-> Idle]

\* the requests whose new Date() is the first or the last of the instants
AtEnds(p) == req'[p].now \in {0, MaxInstant}

\* no handler is in flight
Quiet == \A q \in Procs : req[q].op = "idle"
\* requests served one at a time, each to its response before the next arrives
Serial(p) == p = 1 /\ \A q \in Procs \ {p} : req[q].op = "idle"

\* Event registration, one request at a time.
NextRegSeq ==
  \/ \E p \in Procs :
       \/ Serial(p) /\ AdminCreateClubFindManager(p)
       \/ Serial(p) /\ AdminCreateClubInsert(p)
       \/ Serial(p) /\ AdminCreateEventFindClub(p)
       \/ Serial(p) /\ AdminCreateEventInsert(p)
       \/ Serial(p) /\ RegisterFreeFindEvent(p)
       \/ Serial(p) /\ RegisterFreeExisting(p)
       \/ Serial(p) /\ RegisterFreeCount(p)
       \/ Serial(p) /\ RegisterFreeInsert(p)
       \/ Serial(p) /\ CreateIntentFindEvent(p)
       \/ Serial(p) /\ CreateIntentExisting(p)
       \/ Serial(p) /\ CreateIntentCount(p)
       \/ Serial(p) /\ CreateIntentStripe(p)
       \/ Serial(p) /\ ConfirmRetrieve(p)
       \/ Serial(p) /\ ConfirmExisting(p)
       \/ Serial(p) /\ ConfirmFindEvent(p)
       \/ Serial(p) /\ ConfirmInsert(p)
       \/ Serial(p) /\ CancelFindRegistration(p)
       \/ Serial(p) /\ CancelFindEvent(p)
       \/ Serial(p) /\ CancelUpdate(p)
       \/ Serial(p) /\ Respond(p)
  \/ Quiet /\ PaymentSucceeds
  \/ Quiet /\ EventPasses
SpecRegSeq == Init /\ [][NextRegSeq]_vars

\* Club membership, one request at a time.
NextJoinSeq ==
  \/ \E p \in Procs :
       \/ Serial(p) /\ AdminCreateClubFindManager(p)
       \/ Serial(p) /\ AdminCreateClubInsert(p)
       \/ Serial(p) /\ ClubRegisterFreeFindClub(p)
       \/ Serial(p) /\ ClubRegisterFreeExisting(p)
       \/ Serial(p) /\ ClubRegisterFreeInsert(p)
       \/ Serial(p) /\ ClubRegisterFreeInc(p)
       \/ Serial(p) /\ ClubCreateIntentFindClub(p)
       \/ Serial(p) /\ ClubCreateIntentExisting(p)
       \/ Serial(p) /\ ClubCreateIntentStripe(p)
       \/ Serial(p) /\ ClubConfirmRetrieve(p)
       \/ Serial(p) /\ ClubConfirmExisting(p)
       \/ Serial(p) /\ ClubConfirmFindClub(p) /\ AtEnds(p)
       \/ Serial(p) /\ ClubConfirmInsert(p)
       \/ Serial(p) /\ ClubConfirmInc(p)
       \/ Serial(p) /\ Respond(p)
  \/ Quiet /\ PaymentSucceeds
SpecJoinSeq == Init /\ [][NextJoinSeq]_vars


\* Club deletion with free joins and registrations, one request at a time.
NextCascadeSeq ==
  \E p \in Procs :
    \/ Serial(p) /\ AdminCreateClubFindManager(p)
    \/ Serial(p) /\ AdminCreateClubInsert(p)
    \/ Serial(p) /\ AdminCreateEventFindClub(p)
    \/ Serial(p) /\ AdminCreateEventInsert(p)
    \/ Serial(p) /\ ManagerCreateEventFindClub(p)
    \/ Serial(p) /\ ManagerCreateEventInsert(p)
    \/ Serial(p) /\ RegisterFreeFindEvent(p)
    \/ Serial(p) /\ RegisterFreeExisting(p)
    \/ Serial(p) /\ RegisterFreeCount(p)
    \/ Serial(p) /\ RegisterFreeInsert(p)
    \/ Serial(p) /\ ClubRegisterFreeFindClub(p)
    \/ Serial(p) /\ ClubRegisterFreeExisting(p)
    \/ Serial(p) /\ ClubRegisterFreeInsert(p)
    \/ Serial(p) /\ ClubRegisterFreeInc(p)
    \/ Serial(p) /\ RequestDeletionFindClub(p)
    \/ Serial(p) /\ RequestDeletionUpdate(p)
    \/ Serial(p) /\ ApproveDeletionFindClub(p)
    \/ Serial(p) /\ ApproveDeletionFindEvents(p)
    \/ Serial(p) /\ ApproveDeletionRegistrations(p)
    \/ Serial(p) /\ ApproveDeletionEvents(p)
    \/ Serial(p) /\ ApproveDeletionMemberships(p)
    \/ Serial(p) /\ ApproveDeletionClub(p)
    \/ Serial(p) /\ Respond(p)
SpecCascadeSeq == Init /\ [][NextCascadeSeq]_vars

\* Club membership, the handlers interleaved at their awaits.
NextJoin ==
  \/ \E p \in Procs :
       \/ AdminCreateClubFindManager(p)
       \/ AdminCreateClubInsert(p)
       \/ ClubRegisterFreeFindClub(p)
       \/ ClubRegisterFreeExisting(p)
       \/ ClubRegisterFreeInsert(p)
       \/ ClubRegisterFreeInc(p)
       \/ ClubCreateIntentFindClub(p)
       \/ ClubCreateIntentExisting(p)
       \/ ClubCreateIntentStripe(p)
       \/ ClubConfirmRetrieve(p)
       \/ ClubConfirmExisting(p)
       \/ ClubConfirmFindClub(p) /\ AtEnds(p)
       \/ ClubConfirmInsert(p)
       \/ ClubConfirmInc(p)
       \/ Respond(p)
  \/ PaymentSucceeds
SpecJoin == Init /\ [][NextJoin]_vars

\* Event registration, the handlers interleaved at their awaits.  The store holds
\* what POST /admin/clubs and POST /admin/events have put there: an active club and
\* its upcoming event, free with room for one, or paid; for the paid event user
\* u1 has created an intent through POST /create-intent and has paid it.
AdminClub(n, m, f) ==
  [exists |-> TRUE, name |-> n, fee |-> f, status |-> "active", memberCount |-> 0,
   deletionRequest |-> "none", managerEmail |-> m, category |-> ClubCategory]
AdminEvent(c, n, f, max) ==
  [exists |-> TRUE, clubId |-> Oid(c), clubName |-> n, fee |-> f, price |-> Undef,
   type |-> IF f > 0 THEN "Paid" ELSE "Free", amount |-> Undef, maxAttendees |-> max,
   status |-> "active", past |-> FALSE, date |-> CHOOSE d \in EventDates : TRUE]
PaidIntent(u, o, f) == [EventIntent(u, Str(o, "lower"), f) EXCEPT !.status = "succeeded"]

InitRegRace ==
  /\ app = Running
  /\ users = SeedUsers
  /\ clubs = [o \in ClubOids |-> AdminClub("n1", "m1", 0)]
  /\ \E f \in Fees :
       /\ events = [o \in EventOids |-> AdminEvent("c1", "n1", f, IF f = 0 THEN 1 ELSE 0)]
       /\ intents = IF f = 0 THEN <<>> ELSE <<PaidIntent("u1", "e1", f)>>
  /\ memberships = {}
  /\ registrations = {}
  /\ nextMem = 1
  /\ nextReg = 1
  /\ req = [p \in Procs |-> Idle]

NextRegRace ==
  \/ \E p \in Procs :
    \/ RegisterFreeFindEvent(p)
    \/ RegisterFreeExisting(p)
    \/ RegisterFreeCount(p)
    \/ RegisterFreeInsert(p)
    \/ ConfirmRetrieve(p)
    \/ ConfirmExisting(p)
    \/ ConfirmFindEvent(p)
    \/ ConfirmInsert(p)
    \/ CancelFindRegistration(p)
    \/ CancelFindEvent(p)
    \/ CancelUpdate(p)
    \/ Respond(p)
  \/ EventPasses
SpecRegRace == InitRegRace /\ [][NextRegRace]_vars

\* The cascade interleaved with the handlers that write what it deletes.  The store
\* holds an active free club whose manager has asked for its deletion through
\* DELETE /manager/clubs/:id, with or without an event created by POST /admin/events.
InitCascade ==
  /\ app = Running
  /\ users = SeedUsers
  /\ clubs = [o \in ClubOids |->
               [AdminClub("n1", "m1", 0) EXCEPT !.deletionRequest = "pending"]]
  /\ \E ev \in {NoEvent, AdminEvent("c1", "n1", 0, 0)} :
       events = [o \in EventOids |-> ev]
  /\ memberships = {}
  /\ registrations = {}
  /\ intents = <<>>
  /\ nextMem = 1
  /\ nextReg = 1
  /\ req = [p \in Procs |-> Idle]

\* the admin's requests are served in slot 1, everyone else's in the other slots
NextCascade ==
  \E p \in Procs :
    \/ p # 1 /\ ManagerCreateEventFindClub(p)
    \/ p # 1 /\ ManagerCreateEventInsert(p)
    \/ p # 1 /\ RegisterFreeFindEvent(p)
    \/ p # 1 /\ RegisterFreeExisting(p)
    \/ p # 1 /\ RegisterFreeCount(p)
    \/ p # 1 /\ RegisterFreeInsert(p)
    \/ p # 1 /\ ClubRegisterFreeFindClub(p)
    \/ p # 1 /\ ClubRegisterFreeExisting(p)
    \/ p # 1 /\ ClubRegisterFreeInsert(p)
    \/ p # 1 /\ ClubRegisterFreeInc(p)
    \/ p = 1 /\ ApproveDeletionFindClub(p)
    \/ p = 1 /\ ApproveDeletionFindEvents(p)
    \/ p = 1 /\ ApproveDeletionRegistrations(p)
    \/ p = 1 /\ ApproveDeletionEvents(p)
    \/ p = 1 /\ ApproveDeletionMemberships(p)
    \/ p = 1 /\ ApproveDeletionClub(p)
    \/ Respond(p)
SpecCascade == InitCascade /\ [][NextCascade]_vars

\* The paid paths of both lifecycles, one request at a time.
Next ==
  \/ \E p \in Procs :
       \/ Serial(p) /\ AdminCreateClubFindManager(p)
       \/ Serial(p) /\ AdminCreateClubInsert(p)
       \/ Serial(p) /\ AdminCreateEventFindClub(p)
       \/ Serial(p) /\ AdminCreateEventInsert(p)
       \/ Serial(p) /\ CreateIntentFindEvent(p)
       \/ Serial(p) /\ CreateIntentExisting(p)
       \/ Serial(p) /\ CreateIntentCount(p)
       \/ Serial(p) /\ CreateIntentStripe(p)
       \/ Serial(p) /\ ConfirmRetrieve(p)
       \/ Serial(p) /\ ConfirmExisting(p)
       \/ Serial(p) /\ ConfirmFindEvent(p)
       \/ Serial(p) /\ ConfirmInsert(p)
       \/ Serial(p) /\ ClubCreateIntentFindClub(p)
       \/ Serial(p) /\ ClubCreateIntentExisting(p)
       \/ Serial(p) /\ ClubCreateIntentStripe(p)
       \/ Serial(p) /\ ClubConfirmRetrieve(p)
       \/ Serial(p) /\ ClubConfirmExisting(p)
       \/ Serial(p) /\ ClubConfirmFindClub(p) /\ AtEnds(p)
       \/ Serial(p) /\ ClubConfirmInsert(p)
       \/ Serial(p) /\ ClubConfirmInc(p)
       \/ Serial(p) /\ Respond(p)
  \/ Quiet /\ PaymentSucceeds
Spec == Init /\ [][Next]_vars

\* ------------------------------------------------------------------ claims
\* an id value that resolves to document o, whatever its form and spelling
RefersTo(x, o) == x.form \in {"str", "oid"} /\ x.oid = o

\* approve-deletion has answered success
Approved(p) == req[p].op = "approveDeletion" /\ req[p].pc = "done" /\ req[p].res = "ok"

\* what still refers to club c (named name, whose events found by the cascade were evs)
EventsLeft(c, name) ==
  {o \in EventOids : events[o].exists
                      /\ (RefersTo(events[o].clubId, c) \/ events[o].clubName = name)}
RegistrationsLeft(c, name, evs) ==
  {r \in registrations : \E o \in evs \cup EventsLeft(c, name) : RefersTo(r.eventId, o)}
MembershipsLeft(c) == {m \in memberships : RefersTo(m.clubId, c)}

NothingLeft(p) ==
  LET c == req[p].id.oid
      name == req[p].club.name
  IN /\ ~clubs[c].exists
     /\ EventsLeft(c, name) = {}
     /\ RegistrationsLeft(c, name, req[p].evs) = {}
     /\ MembershipsLeft(c) = {}

\* C5: once approve-deletion, served with no other request interleaved, has answered
\* success, no club document, no event referring to the club by string id, ObjectId or
\* name, no registration of such an event and no membership of the club remains.
C5_CascadeLeavesNothing == \A p \in Procs : Approved(p) => NothingLeft(p)

\* the cascade's own three filters, evaluated again
CascadeQueriesEmpty(p) ==
  /\ EventsOfClub(req[p].id, req[p].club.name) = {}
  /\ RegistrationsOfEvents(req[p].evs) = {}
  /\ MembershipsOfClub(req[p].id) = {}

\* C6: with other handlers running between the steps of approve-deletion, once the
\* approval has answered success the filters by which the cascade deleted events,
\* registrations and memberships match nothing.
C6_CascadeUnderInterleaving == \A p \in Procs : Approved(p) => CascadeQueriesEmpty(p)

\* C1: at most one membership of a (user, club) pair is active or pending, also when
\* join requests for the pair are interleaved at their reads and writes.
C1_OneLiveMembership ==
  \A m1, m2 \in memberships :
    (/\ m1.userId = m2.userId /\ m1.clubId = m2.clubId
     /\ m1.status \in {"active", "pending"} /\ m2.status \in {"active", "pending"})
    => m1 = m2

\* C7: at most one registration of a (user, event) pair has status registered, over
\* any sequence and interleaving of register-free, paid confirm and cancel requests.
C7_OneRegistered ==
  \A r1, r2 \in registrations :
    (/\ r1.userId = r2.userId /\ r1.eventId = r2.eventId
     /\ r1.status = "registered" /\ r2.status = "registered")
    => r1 = r2

\* a handler that has answered
Answered(p, op) == req[p].op = op /\ req[p].pc = "done"

\* C2: the registrations with status registered that carry an event's id never
\* outnumber the event's maxAttendees when that is set, whatever the sequence of
\* register-free, create-intent, confirm and cancel requests.
C2_Capacity ==
  \A o \in EventOids :
    (events[o].exists /\ events[o].maxAttendees # 0)
    => CountRegistered(toString(Oid(o))) <= events[o].maxAttendees

\* C3: no two records carry the same payment intent id: a succeeded intent is applied
\* at most once, also when the registration is cancelled between two confirmations.
C3_IntentAppliedOnce ==
  /\ \A r1, r2 \in registrations :
       (r1.paymentIntentId # 0 /\ r1.paymentIntentId = r2.paymentIntentId) => r1 = r2
  /\ \A m1, m2 \in memberships :
       (m1.paymentIntentId # 0 /\ m1.paymentIntentId = m2.paymentIntentId) => m1 = m2

\* the registered registrations of the event a request names, other than record rid
OtherRegistered(id, rid) ==
  {r \in registrations : RefersTo(r.eventId, id.oid) /\ r.status = "registered"
                          /\ r.id # rid}
OthersRegistered(id, u) == {r \in OtherRegistered(id, 0) : r.userId # u}

\* C10: a register-free request does not succeed for an event for which other users
\* already hold maxAttendees committed registrations with status registered.
C10_FullEventRefuses ==
  \A p \in Procs :
    (Answered(p, "registerFree") /\ req[p].res = "ok"
     /\ FindEvent(req[p].id).maxAttendees # 0)
    => Cardinality(OthersRegistered(req[p].id, req[p].user))
         < FindEvent(req[p].id).maxAttendees

\* the live memberships of a user in the club a request names, other than record mid
OtherLive(u, id, mid) ==
  {m \in memberships : m.userId = u /\ RefersTo(m.clubId, id.oid)
                        /\ m.status \in {"active", "pending"} /\ m.id # mid}

JoinOps == {"clubRegisterFree", "clubConfirm"}

\* C8: a join of a (user, club) pair that already has an active or pending membership
\* does not succeed: no second record is inserted for the pair.
C8_SecondJoinRefused ==
  \A p \in Procs :
    (req[p].op \in JoinOps /\ req[p].pc = "done" /\ req[p].res = "ok")
    => OtherLive(req[p].user, req[p].id, req[p].out) = {}

\* C9, the step of join handler p seen as a whole
JoinStepOf(p) == req'[p] # req[p] /\ req'[p].op \in JoinOps

InsertedBy(p, m) ==
  /\ m.id = req'[p].out /\ m.userId = req'[p].user /\ m.clubId = req'[p].id
  /\ m.status = "active"
  /\ req'[p].op = "clubRegisterFree"
       => (m.paymentStatus = "free" /\ m.amount = 0 /\ m.expiryDate = Undef
           /\ m.paymentIntentId = 0)
  /\ req'[p].op = "clubConfirm"
       => (m.paymentStatus = "paid" /\ m.paymentIntentId = req'[p].pid)

JoinEffect(p) ==
  IF req'[p].pc = "inc"
    THEN /\ \E m \in memberships' \ memberships :
              memberships' = memberships \cup {m} /\ InsertedBy(p, m)
         /\ clubs' = clubs
  ELSE IF req'[p].pc = "done" /\ req'[p].res = "ok"
    THEN /\ req[p].pc = "inc"
         /\ memberships' = memberships
         /\ \E m \in memberships : m.id = req'[p].out
         /\ clubs' = [clubs EXCEPT ![req'[p].id.oid].memberCount = @ + 1]
  ELSE /\ memberships' = memberships
       /\ clubs' = clubs
       /\ req'[p].pc = "done" => req[p].out = 0

\* C9: a successful club join inserts exactly one active membership (free, amount 0,
\* no expiry on the free path; paid with the intent's id on the paid path) and adds
\* exactly 1 to the club's memberCount; a rejected join changes neither.
C9_JoinEffect == [][\A p \in Procs : JoinStepOf(p) => JoinEffect(p)]_vars

C9_Witness ==
  \E p \in Procs :
    /\ Answered(p, "clubConfirm") /\ req[p].res = "ok"
    /\ clubs[req[p].id.oid].memberCount = 2
    /\ Cardinality(memberships) = 2

\* C4: the intent named by a paid record
IntentOf(x) == intents[x.paymentIntentId]

PaidRecordsAuthentic ==
  /\ \A m \in memberships : m.paymentStatus = "paid" =>
       /\ m.paymentIntentId \in DOMAIN intents
       /\ IntentOf(m).status = "succeeded" /\ IntentOf(m).type = "club_membership"
       /\ IntentOf(m).clubId = m.clubId /\ IntentOf(m).userId = m.userId
  /\ \A r \in registrations : r.paymentStatus = "paid" =>
       /\ r.paymentIntentId \in DOMAIN intents
       /\ IntentOf(r).status = "succeeded" /\ IntentOf(r).type # "club_membership"
       /\ IntentOf(r).eventId = r.eventId /\ IntentOf(r).userId = r.userId

\* the retrieved intent names the request's target, user and kind
NamesRequest(r) ==
  /\ r.pi.userId = r.user
  /\ r.op = "confirm" => (r.pi.eventId = r.id /\ r.pi.type # "club_membership")
  /\ r.op = "clubConfirm" => (r.pi.clubId = r.id /\ r.pi.type = "club_membership")

ConfirmOps == {"confirm", "clubConfirm"}

ConfirmAnswers ==
  \A p \in Procs :
    (req[p].op \in ConfirmOps /\ req[p].pc = "done" /\ req[p].pid \in DOMAIN intents) =>
      /\ req[p].pi.status # "succeeded" => req[p].res = "400 Payment not completed"
      /\ (req[p].pi.status = "succeeded" /\ ~NamesRequest(req[p]))
           => req[p].res = "400 Payment intent mismatch"

PaidInsertedByConfirm ==
  /\ \A r \in (registrations' \ registrations) \cup (memberships' \ memberships) :
       r.paymentStatus = "paid" =>
         \E p \in Procs :
           /\ req[p].op \in ConfirmOps /\ req[p].pc = "insert"
           /\ req[p].pi.status = "succeeded" /\ NamesRequest(req[p])
           /\ r.paymentIntentId = req[p].pid /\ r.userId = req[p].user
  /\ \A p \in Procs :
       (/\ req'[p].op \in ConfirmOps /\ req'[p].pc = "done" /\ req[p].pc # "done"
        /\ req'[p].res \in {"400 Payment not completed", "400 Payment intent mismatch"})
       => (memberships' = memberships /\ registrations' = registrations /\ clubs' = clubs)

\* C4: every paid membership or registration was inserted by a confirmation whose
\* retrieved intent had succeeded and named the same target, user and kind; a
\* confirmation with an intent that has not succeeded answers payment-incomplete, one
\* with other metadata answers mismatch, and neither inserts a record nor changes
\* memberCount.
C4_PaidOnlyByMatchingIntent ==
  [](PaidRecordsAuthentic /\ ConfirmAnswers) /\ [][PaidInsertedByConfirm]_vars

C4_Witness ==
  /\ \E r \in registrations : r.paymentStatus = "paid"
  /\ \E m \in memberships : m.paymentStatus = "paid"
  /\ \E p \in Procs :
       /\ Answered(p, "clubConfirm") /\ req[p].res = "400 Payment intent mismatch"
       /\ req[p].pi.type # "club_membership"

\* ------------------------------------------------ free and paid paths by fee
\* Both paths of both lifecycles up to the intent, one request at a time.
NextPaths ==
  \E p \in Procs :
    \/ Serial(p) /\ AdminCreateClubFindManager(p)
    \/ Serial(p) /\ AdminCreateClubInsert(p)
    \/ Serial(p) /\ AdminCreateEventFindClub(p)
    \/ Serial(p) /\ AdminCreateEventInsert(p)
    \/ Serial(p) /\ ManagerCreateEventFindClub(p)
    \/ Serial(p) /\ ManagerCreateEventInsert(p)
    \/ Serial(p) /\ RegisterFreeFindEvent(p)
    \/ Serial(p) /\ RegisterFreeExisting(p)
    \/ Serial(p) /\ RegisterFreeCount(p)
    \/ Serial(p) /\ RegisterFreeInsert(p)
    \/ Serial(p) /\ CreateIntentFindEvent(p)
    \/ Serial(p) /\ CreateIntentExisting(p)
    \/ Serial(p) /\ CreateIntentCount(p)
    \/ Serial(p) /\ CreateIntentStripe(p)
    \/ Serial(p) /\ ClubRegisterFreeFindClub(p)
    \/ Serial(p) /\ ClubRegisterFreeExisting(p)
    \/ Serial(p) /\ ClubRegisterFreeInsert(p)
    \/ Serial(p) /\ ClubRegisterFreeInc(p)
    \/ Serial(p) /\ ClubCreateIntentFindClub(p)
    \/ Serial(p) /\ ClubCreateIntentExisting(p)
    \/ Serial(p) /\ ClubCreateIntentStripe(p)
    \/ Serial(p) /\ Respond(p)
SpecPaths == Init /\ [][NextPaths]_vars

WrongPathFree == {"400 Event is free, use direct registration",
                  "400 Club is free, use direct registration"}
WrongPathPaid == {"400 Event is not free, use payment flow",
                  "400 Club is not free, use payment flow"}

\* the request's earlier checks (duplicate, capacity) have nothing to object to
EventOpen(r) ==
  /\ ExistingRegistration(r.user, r.id) = {}
  /\ FindEvent(r.id).maxAttendees # 0 => CountRegistered(r.id) < FindEvent(r.id).maxAttendees

FreeEventPaths(p) ==
  LET r == req[p]
      ev == FindEvent(r.id)
  IN /\ (Answered(p, "createIntent") /\ ev.exists /\ EventFee(ev) = 0) =>
          /\ r.res # "ok"
          /\ EventOpen(r) => r.res \in WrongPathFree
     /\ (Answered(p, "registerFree") /\ ev.exists /\ EventFee(ev) = 0) =>
          IF r.res = "ok"
            THEN \E x \in registrations :
                   /\ x.id = r.out /\ x.userId = r.user /\ x.eventId = r.id
                   /\ x.status = "registered" /\ x.paymentStatus = "free"
            ELSE ~EventOpen(r)
     /\ (Answered(p, "registerFree") /\ ev.exists /\ EventFee(ev) > 0) =>
          r.res \in WrongPathPaid

FreeClubPaths(p) ==
  LET r == req[p]
      club == FindClub(r.id)
  IN /\ (Answered(p, "clubCreateIntent") /\ club.exists /\ club.fee = 0) =>
          /\ r.res # "ok"
          /\ ExistingMembership(r.user, r.id) = {} => r.res \in WrongPathFree
     /\ (Answered(p, "clubRegisterFree") /\ club.exists /\ club.fee = 0) =>
          IF r.res = "ok"
            THEN \E m \in memberships :
                   /\ m.id = r.out /\ m.userId = r.user /\ m.clubId = r.id
                   /\ m.status = "active" /\ m.paymentStatus = "free"
            ELSE ExistingMembership(r.user, r.id) # {}
     /\ (Answered(p, "clubRegisterFree") /\ club.exists /\ club.fee > 0) =>
          r.res \in WrongPathPaid

\* no intent names a free target, no free record names a paid one
RecordsFollowFee ==
  /\ \A i \in 1..Len(intents) :
       /\ intents[i].eventId # NoId => EventFee(FindEvent(intents[i].eventId)) > 0
       /\ intents[i].clubId # NoId => FindClub(intents[i].clubId).fee > 0
  /\ \A x \in registrations :
       x.paymentStatus = "free" => EventFee(FindEvent(x.eventId)) = 0
  /\ \A m \in memberships :
       m.paymentStatus = "free" => FindClub(m.clubId).fee = 0

\* C11: by fee the two paths exclude each other.  For a target whose fee is 0,
\* create-intent never succeeds, creates no intent and answers the wrong-path error
\* when no earlier check (duplicate, capacity) rejects it, and register-free
\* succeeds with a registered (active, for a club) record of paymentStatus free
\* unless the duplicate or capacity check rejects it; for a target whose fee is
\* greater than 0 register-free answers the wrong-path error and inserts nothing.
C11_PathsByFee ==
  /\ \A p \in Procs : FreeEventPaths(p) /\ FreeClubPaths(p)
  /\ RecordsFollowFee

C11_Witness ==
  /\ \E x \in registrations : x.paymentStatus = "free"
  /\ \E p \in Procs :
       /\ Answered(p, "createIntent") /\ req[p].res \in WrongPathFree
       /\ EventFee(FindEvent(req[p].id)) = 0

\* ------------------------------------------------------------ cancellation
\* Free registration and cancellation, one request at a time, while events pass.
NextCancel ==
  \/ \E p \in Procs :
       \/ Serial(p) /\ AdminCreateClubFindManager(p)
       \/ Serial(p) /\ AdminCreateClubInsert(p)
       \/ Serial(p) /\ AdminCreateEventFindClub(p)
       \/ Serial(p) /\ AdminCreateEventInsert(p)
       \/ Serial(p) /\ RegisterFreeFindEvent(p)
       \/ Serial(p) /\ RegisterFreeExisting(p)
       \/ Serial(p) /\ RegisterFreeCount(p)
       \/ Serial(p) /\ RegisterFreeInsert(p)
       \/ Serial(p) /\ CancelFindRegistration(p)
       \/ Serial(p) /\ CancelFindEvent(p)
       \/ Serial(p) /\ CancelUpdate(p)
       \/ Serial(p) /\ Respond(p)
  \/ Quiet /\ EventPasses
SpecCancel == Init /\ [][NextCancel]_vars

\* the registration a cancel request names
Named(r) == {x \in registrations : x.id = r.rid}

\* a cancelled registration is never written again
CancelledStays == \A x \in registrations : x.status = "cancelled" => x \in registrations'

\* a cancel request by its owner for a cancelled registration is refused at once
SecondCancelRefused ==
  \A p \in Procs :
    (/\ req[p].op = "idle" /\ req'[p].op = "cancel"
     /\ \E x \in Named(req'[p]) : x.userId = req'[p].user /\ x.status = "cancelled")
    => (req'[p].pc = "done" /\ req'[p].res = "400 Registration is already cancelled")

\* C12: a cancel request for a registration that is already cancelled answers the
\* already-cancelled error and the record keeps its status and cancelledAt; of the
\* cancel requests served for one registration at most one ever wrote it.
C12_SecondCancelFails ==
  /\ [][CancelledStays /\ SecondCancelRefused]_vars
  /\ [](\A x \in registrations : x.cancelledAt <= 1)

C12_Witness ==
  \E p \in Procs :
    /\ Answered(p, "cancel") /\ req[p].res = "400 Registration is already cancelled"
    /\ \E x \in Named(req[p]) : x.status = "cancelled" /\ x.cancelledAt = 1

\* what a step of cancel handler p does to the store
CancelEffect(p) ==
  IF req'[p].pc = "done" /\ req'[p].res = "ok"
    THEN \E x \in registrations :
           /\ x.id = req'[p].rid /\ x.userId = req'[p].user /\ x.status = "registered"
           /\ ~(FindEvent(ObjectId(x.eventId)).exists /\ FindEvent(ObjectId(x.eventId)).past)
           /\ \E y \in registrations' :
                /\ y = [x EXCEPT !.status = "cancelled", !.cancelledAt = y.cancelledAt]
                /\ y.cancelledAt # x.cancelledAt /\ y.cancelledAt # 0
                /\ registrations' = (registrations \ {x}) \cup {y}
    ELSE registrations' = registrations

\* the answer of a cancel request against the registration it names
CancelAnswer(p) ==
  \A x \in Named(req[p]) :
    /\ x.userId # req[p].user => req[p].res = "404 Registration not found"
    /\ (x.userId = req[p].user /\ x.status = "registered") =>
         /\ req[p].res = "400 Cannot cancel registration for past events"
         /\ FindEvent(ObjectId(x.eventId)).past

\* C13: served one at a time, a cancel request for a registration of a past event
\* answers the past-event error and the registration stays registered; one by the
\* owner for a registered registration whose event is not past succeeds and sets
\* status cancelled and cancelledAt; one for a registration of another user answers
\* not-found; and only the successful one changes the store.
C13_CancelRules ==
  /\ [][\A p \in Procs : (req'[p] # req[p] /\ req'[p].op = "cancel") => CancelEffect(p)]_vars
  /\ [](\A p \in Procs : Answered(p, "cancel") => CancelAnswer(p))

C13_Witness ==
  /\ \E p \in Procs :
       /\ Answered(p, "cancel")
       /\ req[p].res = "400 Cannot cancel registration for past events"
       /\ \E x \in Named(req[p]) : x.status = "registered"
  /\ \E x \in registrations : x.status = "cancelled" /\ x.cancelledAt # 0

\* -------------------------------------------------- membership status band
\* Math.ceil(a / b) for b > 0; Math.ceil of a value in (-1, 0) is -0, which is not < 0
Ceil(a, b) == 0 - ((0 - a) \div b)

\* the date rules consulted before the stored status
calculateMembershipStatusDatesFirst(membership, now) ==
  IF membership.expiryDate # Undef /\ Ceil(membership.expiryDate - now, DayLength) < 0
    THEN "expired"
  ELSE IF membership.expiryDate # Undef /\ Ceil(membership.expiryDate - now, DayLength) <= 1
    THEN "renew_soon"
  ELSE IF membership.status = "-" THEN "active" ELSE membership.status

\* the date rules applied to paid memberships only
calculateMembershipStatusByPayment(membership, now) ==
  IF membership.status = "pending" THEN "pending"
  ELSE IF membership.status = "expired" THEN "expired"
  ELSE IF /\ membership.paymentStatus = "paid" /\ membership.expiryDate # Undef
          /\ Ceil(membership.expiryDate - now, DayLength) < 0 THEN "expired"
  ELSE IF /\ membership.paymentStatus = "paid" /\ membership.expiryDate # Undef
          /\ Ceil(membership.expiryDate - now, DayLength) <= 1 THEN "renew_soon"
  ELSE IF membership.status = "-" THEN "active" ELSE membership.status

\* the stored status returned as it is, without the default of an unset one
calculateMembershipStatusNoDefault(membership, now) ==
  IF membership.status = "pending" THEN "pending"
  ELSE IF membership.status = "expired" THEN "expired"
  ELSE IF membership.expiryDate # Undef /\ Ceil(membership.expiryDate - now, DayLength) < 0
    THEN "expired"
  ELSE IF membership.expiryDate # Undef /\ Ceil(membership.expiryDate - now, DayLength) <= 1
    THEN "renew_soon"
  ELSE membership.status

\* calculateMembershipStatus(membership) of a membership document, its new Date()
\* read at instant now; expiryDate Undef is null, status "-" is unset
calculateMembershipStatus(membership, now) ==
  IF membership.status = "pending" THEN "pending"
  ELSE IF membership.status = "expired" THEN "expired"
  ELSE IF membership.expiryDate # Undef /\ Ceil(membership.expiryDate - now, DayLength) < 0
    THEN "expired"
  ELSE IF membership.expiryDate # Undef /\ Ceil(membership.expiryDate - now, DayLength) <= 1
    THEN "renew_soon"
  ELSE IF membership.status = "-" THEN "active" ELSE membership.status

\* GET /member/clubs, to the first await: find({userId [, status]})
StatusFilters == {"", "Active", "Expired", "Pending"}
MatchesFilter(m, f) ==
  \/ f = ""
  \/ f = "Active" /\ m.status = "active"
  \/ f = "Expired" /\ m.status = "expired"
  \/ f = "Pending" /\ m.status = "pending"

ListClubsFind(p) ==
  /\ req[p].op = "idle"
  /\ \E u \in Users, f \in StatusFilters :
       LET r == Request("listClubs", u, NoId, 0, 0)
           found == {m \in memberships : m.userId = u /\ MatchesFilter(m, f)}
       IN req' = [req EXCEPT ![p] =
            IF found = {} THEN Done(r, "ok", 0)
            ELSE [r EXCEPT !.pc = "details", !.mems = found]]
  /\ UNCHANGED <<app, users, Database, intents>>

\* the entry of the response for membership m, computed at instant now
ClubEntry(m, now) ==
  [id |-> m.id, clubId |-> ObjectId(m.clubId),
   status |-> calculateMembershipStatus(m, now),
   expiryDate |-> m.expiryDate, now |-> now]

\* the memberships written back with their band
Persisted(ms, now) ==
  {IF m \in ms THEN [m EXCEPT !.status = calculateMembershipStatus(m, now)]
   ELSE m : m \in memberships}

\* clubsCollection.findOne({_id: new ObjectId(membership.clubId)}) of one membership
\* resolves at instant now: its entry is computed, or dropped when the club is
\* gone; with the last of them the response is sent.
ListClubsRespond(p, m, now) ==
  LET r == req[p]
      list == IF FindClub(ObjectId(m.clubId)).exists
              THEN r.list \cup {ClubEntry(m, now)} ELSE r.list
  IN req' = [req EXCEPT ![p] =
       IF r.mems = {m}
       THEN [Done(r, "ok", 0) EXCEPT !.now = now, !.list = list]
       ELSE [r EXCEPT !.mems = @ \ {m}, !.now = now, !.list = list]]

ListClubsDetailsPersisting(p) ==
  /\ req[p].op = "listClubs" /\ req[p].pc = "details"
  /\ \E m \in req[p].mems, now \in Now :
       /\ now >= req[p].now
       /\ ListClubsRespond(p, m, now)
       /\ memberships' = Persisted({m}, now)
  /\ UNCHANGED <<app, users, clubs, events, registrations, nextMem, nextReg, intents>>

\* one of the reads of Promise.all resolves, in any order, each at its own new Date()
ListClubsDetails(p) ==
  /\ req[p].op = "listClubs" /\ req[p].pc = "details"
  /\ \E m \in req[p].mems, now \in Now :
       /\ now >= req[p].now
       /\ ListClubsRespond(p, m, now)
  /\ UNCHANGED <<app, users, Database, intents>>

\* The arguments of calculateMembershipStatus taken as a function of its own: a
\* membership document as either insert writes it, with the status and the expiry
\* date the function reads ranging over the statuses of the data model and a date
\* that is null or set.
ExpiryDates == {Undef, 5}
StoredStatuses == {"-", "active", "pending", "expired", "cancelled"}
MembershipDocuments ==
  LET pi == [ClubIntent("u2", Str("c1", "lower"), 500) EXCEPT !.status = "succeeded"] IN
    {[d EXCEPT !.status = st, !.expiryDate = e] :
       d \in {FreeMembership(0, "u2", Str("c1", "lower")),
              PaidMembership(0, "u2", Str("c1", "lower"), 1, pi, 0)},
       st \in StoredStatuses, e \in ExpiryDates}

\* calculateMembershipStatus applied to a document at instant now, argument and
\* result kept; the store is neither read nor written
CalculateMembershipStatusCall(p) ==
  /\ req[p].op = "idle"
  /\ \E membership \in MembershipDocuments, now \in Instants :
       req' = [req EXCEPT ![p] =
         [Done(Request("calculateMembershipStatus", membership.userId, NoId, 0, 0), "ok", 0)
            EXCEPT !.now = now,
                   !.list = {[membership |-> membership, now |-> now,
                              status |-> calculateMembershipStatus(membership, now)]}]]
  /\ UNCHANGED <<app, users, Database, intents>>

\* The store as the handlers leave it: a club with two members, the paid membership
\* of u1 that POST /club/confirm inserted a month before instant 5 (status active,
\* an expiry date) and the free membership of u2 that POST /club/register-free
\* inserted (status active, no expiry date). Members list their clubs at any
\* instant, and calculateMembershipStatus is applied to drawn documents.
InitBand ==
  /\ app = Running
  /\ users = SeedUsers
  /\ \E f \in Fees :
       clubs = [o \in ClubOids |-> [AdminClub("n1", "m1", f) EXCEPT !.memberCount = 2]]
  /\ events = [o \in EventOids |-> NoEvent]
  /\ LET pi == [ClubIntent("u1", Str("c1", "lower"), 500) EXCEPT !.status = "succeeded"] IN
       /\ intents = <<pi>>
       /\ memberships = {[PaidMembership(1, "u1", Str("c1", "lower"), 1, pi, 0) EXCEPT
                            !.expiryDate = 5],
                         FreeMembership(2, "u2", Str("c1", "lower"))}
  /\ registrations = {}
  /\ nextMem = 3
  /\ nextReg = 1
  /\ req = [p \in Procs |-> Idle]

NextBand ==
  \E p \in Procs :
    \/ ListClubsFind(p)
    \/ ListClubsDetails(p)
    \/ CalculateMembershipStatusCall(p)
    \/ Respond(p)
SpecBand == InitBand /\ [][NextBand]_vars

\* the stored membership behind an entry of a response
StoredOf(e) == CHOOSE m \in memberships : m.id = e.id

\* every band on record with the document it was computed from and the instant: the
\* entries of the responses of GET /member/clubs and the results of the calls
Evaluations ==
  UNION {{[membership |-> IF req[p].op = "listClubs" THEN StoredOf(e) ELSE e.membership,
           now |-> e.now, band |-> e.status] : e \in req[p].list} :
         p \in {q \in Procs : Answered(q, "listClubs")
                                \/ Answered(q, "calculateMembershipStatus")}}

\* C14: for a stored status other than pending and expired and an expiry date that
\* is set, the band is expired whenever expiryDate < now, by however little;
\* otherwise renew_soon when the whole days to expiry are at most 1; otherwise the
\* stored status, active if unset.
C14_BandByDate ==
  \A p \in Procs : Answered(p, "listClubs") =>
    \A e \in req[p].list :
      LET m == StoredOf(e) IN
        (m.status \notin {"pending", "expired"} /\ m.expiryDate # Undef) =>
          e.status = IF m.expiryDate < e.now THEN "expired"
                     ELSE IF Ceil(m.expiryDate - e.now, DayLength) <= 1
                       THEN "renew_soon"
                     ELSE IF m.status = "-" THEN "active" ELSE m.status

\* C15: the band of a stored status pending is pending and of expired is expired,
\* whatever expiryDate and now are; with expiryDate null the band is the stored
\* status, active if unset.
C15_StoredStatusFirst ==
  \A v \in Evaluations :
    /\ v.membership.status \in {"pending", "expired"} => v.band = v.membership.status
    /\ v.membership.expiryDate = Undef =>
         v.band = IF v.membership.status = "-" THEN "active" ELSE v.membership.status

C15_Witness ==
  \E v \in Evaluations :
    /\ v.membership.status = "pending" /\ v.band = "pending"
    /\ v.membership.expiryDate # Undef /\ v.membership.expiryDate < v.now

\* C16: listing never writes a membership, and any two bands computed from the same
\* stored status and expiry date at the same instant are the same band, whichever
\* documents they were computed from and whatever the other fields of those hold.
SameTripleSameBand ==
  \A v, w \in Evaluations :
    (/\ v.membership.status = w.membership.status
     /\ v.membership.expiryDate = w.membership.expiryDate
     /\ v.now = w.now) => v.band = w.band

C16_BandNotPersisted ==
  /\ [][(\E p \in Procs : req'[p] # req[p] /\ req'[p].op = "listClubs")
          => memberships' = memberships]_vars
  /\ []SameTripleSameBand

\* the paid membership of the store listed, and a free document of another user with
\* the same status and expiry date evaluated at the same instant
C16_Witness ==
  \E p, q \in Procs :
    /\ Answered(p, "listClubs") /\ Answered(q, "calculateMembershipStatus")
    /\ \E e \in req[p].list, f \in req[q].list :
         /\ StoredOf(e).status = "active" /\ f.membership.status = "active"
         /\ StoredOf(e).expiryDate = f.membership.expiryDate
         /\ StoredOf(e).paymentStatus = "paid" /\ f.membership.paymentStatus = "free"
         /\ e.now = f.now /\ e.status = "renew_soon" /\ f.status = "renew_soon"

\* ---------------------------------------------- rejected deletion requests
\* Deletion requests and their rejection among free joins and registrations, one
\* request at a time.
NextReject ==
  \E p \in Procs :
    \/ Serial(p) /\ AdminCreateClubFindManager(p)
    \/ Serial(p) /\ AdminCreateClubInsert(p)
    \/ Serial(p) /\ AdminCreateEventFindClub(p)
    \/ Serial(p) /\ AdminCreateEventInsert(p)
    \/ Serial(p) /\ RegisterFreeFindEvent(p)
    \/ Serial(p) /\ RegisterFreeExisting(p)
    \/ Serial(p) /\ RegisterFreeCount(p)
    \/ Serial(p) /\ RegisterFreeInsert(p)
    \/ Serial(p) /\ ClubRegisterFreeFindClub(p)
    \/ Serial(p) /\ ClubRegisterFreeExisting(p)
    \/ Serial(p) /\ ClubRegisterFreeInsert(p)
    \/ Serial(p) /\ ClubRegisterFreeInc(p)
    \/ Serial(p) /\ RequestDeletionFindClub(p)
    \/ Serial(p) /\ RequestDeletionUpdate(p)
    \/ Serial(p) /\ RejectDeletionFindClub(p)
    \/ Serial(p) /\ RejectDeletionUpdate(p)
    \/ Serial(p) /\ Respond(p)
SpecReject == Init /\ [][NextReject]_vars

\* what a step of reject-deletion handler p does to the store
RejectEffect(p) ==
  /\ UNCHANGED <<events, registrations, memberships>>
  /\ IF req'[p].pc = "done" /\ req'[p].res = "ok"
       THEN LET o == req'[p].id.oid IN
              /\ clubs[o].exists /\ clubs[o].deletionRequest = "pending"
              /\ clubs' = [clubs EXCEPT ![o].deletionRequest = "none"]
       ELSE clubs' = clubs

\* after a rejection the owner's next deletion request passes its checks
Rejected(p) == Answered(p, "rejectDeletion") /\ req[p].res = "ok"
RequestPermitted(p) ==
  LET club == FindClub(req[p].id) IN
    /\ club.exists /\ club.status = "active" /\ club.deletionRequest = "none"
    /\ RequestDeletionCheck(club, club.managerEmail) = ""

\* C17: a rejection removes the deletionRequest marker of the club and changes
\* nothing else: the club keeps its status and is found by its id, no event,
\* registration or membership is deleted, and a new deletion request by the owning
\* manager passes the handler's checks and is stored.
C17_RejectKeepsClub ==
  /\ [][\A p \in Procs : (req'[p] # req[p] /\ req'[p].op = "rejectDeletion")
                           => RejectEffect(p)]_vars
  /\ [](\A p \in Procs : Rejected(p) => RequestPermitted(p))
  /\ [][\A p \in Procs :
          (/\ req[p].op = "requestDeletion" /\ req[p].pc = "update"
           /\ req'[p].pc = "done" /\ clubs[req[p].id.oid].exists)
          => (req'[p].res = "ok" /\ clubs'[req[p].id.oid].deletionRequest = "pending")]_vars

C17_Witness ==
  \E p \in Procs :
    /\ Rejected(p)
    /\ memberships # {} /\ registrations # {}
    /\ \E o \in EventOids : events[o].exists

\* ------------------------------------------------------------- my events
DateOnlyExact(t) == t

\* new Date(d.getFullYear(), d.getMonth(), d.getDate()): the midnight that starts
\* the day of instant t
DateOnly(t) == (t \div DayLength) * DayLength

Tabs == {"upcoming", "waitlist", "past", "cancelled"}
TabStatus(tab) == CASE tab = "upcoming" -> "registered"
                    [] tab = "waitlist" -> "waitlisted"
                    [] tab = "past" -> "registered"
                    [] tab = "cancelled" -> "cancelled"

\* GET /member/events (no search), to the first await: find({userId, status}); with
\* no registration found the handler goes on to the counts
ListEventsFind(p) ==
  /\ req[p].op = "idle"
  /\ \E u \in Users, tab \in Tabs, now \in Now :
       LET found == {r \in registrations : r.userId = u /\ r.status = TabStatus(tab)} IN
       req' = [req EXCEPT ![p] =
                 [Request("listEvents", u, NoId, 0, 0) EXCEPT
                    !.pc = IF found = {} THEN "all" ELSE "details",
                    !.tab = tab, !.now = now, !.regs = found]]
  /\ UNCHANGED <<app, users, Database, intents>>

\* whether the tab keeps an event of the given date
TabKeeps(date, tab, now) ==
  LET isPast == DateOnly(date) < DateOnly(now)
      isTodayOrFuture == DateOnly(date) >= DateOnly(now)
  IN /\ ~(tab = "upcoming" /\ isPast)
     /\ ~(tab = "past" /\ isTodayOrFuture)

\* the details of the list are complete when no read of Promise.all is pending
DetailsPhase(regs, held) == IF regs = {} /\ held = {} THEN "all" ELSE "details"

\* eventsCollection.findOne({_id: new ObjectId(registration.eventId)}) of one
\* registration resolves: without its event the registration is dropped, with it
\* the club of the event is asked for.
ListEventsDetails(p) ==
  /\ req[p].op = "listEvents" /\ req[p].pc = "details"
  /\ \E r \in req[p].regs :
       LET ev == FindEvent(ObjectId(r.eventId))
           regs == req[p].regs \ {r}
           held == IF ev.exists THEN req[p].held \cup {[id |-> r.id, date |-> ev.date]}
                   ELSE req[p].held
       IN req' = [req EXCEPT ![p].regs = regs, ![p].held = held,
                             ![p].pc = DetailsPhase(regs, held)]
  /\ UNCHANGED <<app, users, Database, intents>>

\* clubsCollection.findOne({_id: new ObjectId(event.clubId)}) of one registration
\* resolves: the entry is kept or dropped by the date of the event that was read.
ListEventsDetailsClub(p) ==
  /\ req[p].op = "listEvents" /\ req[p].pc = "details"
  /\ \E h \in req[p].held :
       LET held == req[p].held \ {h} IN
       req' = [req EXCEPT
                 ![p].held = held,
                 ![p].list = IF TabKeeps(h.date, req[p].tab, req[p].now)
                             THEN @ \cup {h.id} ELSE @,
                 ![p].pc = DetailsPhase(req[p].regs, held)]
  /\ UNCHANGED <<app, users, Database, intents>>

\* the counts of the tabs: registrationsCollection.find({userId}).toArray()
ListEventsAll(p) ==
  /\ req[p].op = "listEvents" /\ req[p].pc = "all"
  /\ req' = [req EXCEPT ![p].pc = "waitlist",
                        ![p].all = {r \in registrations : r.userId = req[p].user}]
  /\ UNCHANGED <<app, users, Database, intents>>

\* countDocuments({userId, status})
CountStatus(u, status) ==
  Cardinality({r \in registrations : r.userId = u /\ r.status = status})

\* countDocuments({userId, status: 'waitlisted'})
ListEventsCountWaitlist(p) ==
  /\ req[p].op = "listEvents" /\ req[p].pc = "waitlist"
  /\ req' = [req EXCEPT ![p].pc = "cancelled",
                        ![p].counts.waitlist = CountStatus(req[p].user, "waitlisted")]
  /\ UNCHANGED <<app, users, Database, intents>>

\* the response of GET /member/events
ListEventsResponse(r) ==
  [Done(r, "ok", 0) EXCEPT !.tab = r.tab, !.now = r.now, !.list = r.list,
                           !.counts = r.counts]

\* the registrations of the second snapshot the loop reads an event for
StillToCount(all) == {r \in all : r.status = "registered"}

\* countDocuments({userId, status: 'cancelled'}); the loop over the second snapshot
\* follows, and the response when it reads no event
ListEventsCountCancelled(p) ==
  /\ req[p].op = "listEvents" /\ req[p].pc = "cancelled"
  /\ LET r == [req[p] EXCEPT !.counts.cancelled = CountStatus(req[p].user, "cancelled"),
                             !.all = StillToCount(@)]
     IN req' = [req EXCEPT ![p] = IF r.all = {} THEN ListEventsResponse(r)
                                  ELSE [r EXCEPT !.pc = "counts"]]
  /\ UNCHANGED <<app, users, Database, intents>>

\* the loop of the counts: eventsCollection.findOne of the next registered
\* registration of the snapshot resolves, and with the last one the response is sent
ListEventsCounts(p) ==
  /\ req[p].op = "listEvents" /\ req[p].pc = "counts"
  /\ LET reg == CHOOSE x \in req[p].all : \A y \in req[p].all : x.id <= y.id
         ev == FindEvent(ObjectId(reg.eventId))
         upcoming == ev.exists /\ DateOnly(ev.date) >= DateOnly(req[p].now)
         past == ev.exists /\ ~upcoming
         r == [req[p] EXCEPT !.all = @ \ {reg},
                             !.counts.upcoming = IF upcoming THEN @ + 1 ELSE @,
                             !.counts.past = IF past THEN @ + 1 ELSE @]
     IN req' = [req EXCEPT ![p] = IF r.all = {} THEN ListEventsResponse(r) ELSE r]
  /\ UNCHANGED <<app, users, Database, intents>>

\* Free registration, cancellation and the member's list of events, one request at
\* a time, while events pass.
NextTabs ==
  \/ \E p \in Procs :
       \/ Serial(p) /\ AdminCreateClubFindManager(p)
       \/ Serial(p) /\ AdminCreateClubInsert(p)
       \/ Serial(p) /\ AdminCreateEventFindClub(p)
       \/ Serial(p) /\ AdminCreateEventInsert(p)
       \/ Serial(p) /\ RegisterFreeFindEvent(p)
       \/ Serial(p) /\ RegisterFreeExisting(p)
       \/ Serial(p) /\ RegisterFreeCount(p)
       \/ Serial(p) /\ RegisterFreeInsert(p)
       \/ Serial(p) /\ CancelFindRegistration(p)
       \/ Serial(p) /\ CancelFindEvent(p)
       \/ Serial(p) /\ CancelUpdate(p)
       \/ Serial(p) /\ ListEventsFind(p)
       \/ Serial(p) /\ ListEventsDetails(p)
       \/ Serial(p) /\ ListEventsDetailsClub(p)
       \/ Serial(p) /\ ListEventsAll(p)
       \/ Serial(p) /\ ListEventsCountWaitlist(p)
       \/ Serial(p) /\ ListEventsCountCancelled(p)
       \/ Serial(p) /\ ListEventsCounts(p)
       \/ Serial(p) /\ Respond(p)
  \/ Quiet /\ EventPasses
SpecTabs == Init /\ [][NextTabs]_vars

\* the calendar day of an instant
DayOf(t) == t \div DayLength

\* the user's registered registrations whose event exists, by the event's day
RegisteredOn(u, now, upcoming) ==
  {r.id : r \in {x \in registrations :
                   /\ x.userId = u /\ x.status = "registered"
                   /\ FindEvent(ObjectId(x.eventId)).exists
                   /\ (DayOf(FindEvent(ObjectId(x.eventId)).date) >= DayOf(now)) = upcoming}}

\* C18: the upcoming tab lists exactly the user's registered registrations whose
\* event's calendar day is today or later, the past tab exactly those whose event's
\* day is before today, and counts.upcoming and counts.past are the sizes of these
\* two sets, which share no registration and together hold every registered one
\* whose event exists.
C18_TabsByCalendarDay ==
  \A p \in Procs : Answered(p, "listEvents") =>
    LET r == req[p]
        up == RegisteredOn(r.user, r.now, TRUE)
        past == RegisteredOn(r.user, r.now, FALSE)
    IN /\ r.tab = "upcoming" => r.list = up
       /\ r.tab = "past" => r.list = past
       /\ r.counts.upcoming = Cardinality(up)
       /\ r.counts.past = Cardinality(past)

C18_Witness ==
  \E p \in Procs :
    /\ Answered(p, "listEvents") /\ req[p].tab = "upcoming" /\ req[p].list # {}
    /\ \E o \in EventOids : events[o].exists /\ events[o].date < req[p].now

\* ------------------------------------------------- clubs created by managers
\* fee ? Math.round(fee * 100) : 0 of POST /manager/clubs
CreatedFee(fee) == IF fee # 0 THEN MathRound(fee * 100) ELSE 0

\* POST /manager/clubs: the club is stored with status pending
ManagerCreateClub(p) ==
  /\ req[p].op = "idle"
  /\ \E o \in ClubOids : clubs[o] = NoClub
  /\ \E n \in ClubNames, m \in Managers, f \in Fees :
       clubs' = [clubs EXCEPT ![NewClubOid] =
                   [exists |-> TRUE, name |-> n, fee |-> CreatedFee(f), status |-> "pending",
                    memberCount |-> 0, deletionRequest |-> "none", managerEmail |-> m,
                    category |-> "Uncategorized"]]
  /\ req' = [req EXCEPT ![p] = Done(Request("managerCreateClub", "-", Oid(NewClubOid), 0, 0),
                                    "ok", 0)]
  /\ UNCHANGED <<app, users, events, memberships, registrations, nextMem, nextReg, intents>>

\* the fields of a body of PUT /manager/clubs/:id other than status and fee
NoOtherFields == [memberCount |-> Undef, managerEmail |-> "-", deletionRequest |-> "-",
                  name |-> "-"]
OtherFields == {NoOtherFields,
                [NoOtherFields EXCEPT !.memberCount = 0],
                [NoOtherFields EXCEPT !.managerEmail = "m2"],
                [NoOtherFields EXCEPT !.deletionRequest = "none"],
                [NoOtherFields EXCEPT !.deletionRequest = "pending"],
                [NoOtherFields EXCEPT !.name = "n2"]}

\* the bodies of PUT /manager/clubs/:id: any fields; "-" and Undef are absent ones.
\* The fees are 5, 500 and 150.5, in hundredths.
UpdateBodies == [status : {"-", "active", "inactive"}, fee : {Undef, 500, 50000, 15050},
                 other : OtherFields]

\* a fee below 100 is multiplied by 100, and the fee is rounded to a whole number
UpdatedFee(fee) == IF fee < 100 * 100 THEN MathRound(fee * 100) ELSE MathRound(fee)

\* PUT /manager/clubs/:id, to the first await: the club must be the manager's own
ManagerUpdateClubFind(p) ==
  /\ req[p].op = "idle"
  /\ \E m \in Managers, id \in ClubIdStrings, body \in UpdateBodies :
       LET r == Request("managerUpdateClub", m, id, 0, 0)
           club == FindClub(id)
       IN req' = [req EXCEPT ![p] =
            IF ~club.exists \/ club.managerEmail # m
              THEN Done(r, "404 Club not found or access denied", 0)
            ELSE [r EXCEPT !.pc = "update",
                           !.club = [exists |-> TRUE, status |-> body.status,
                                     fee |-> body.fee,
                                     memberCount |-> body.other.memberCount,
                                     managerEmail |-> body.other.managerEmail,
                                     deletionRequest |-> body.other.deletionRequest,
                                     name |-> body.other.name]]]
  /\ UNCHANGED <<app, users, Database, intents>>

\* updateOne({_id}, {$set: {...req.body, updatedAt}}): every field of the body
ManagerUpdateClubSet(p) ==
  /\ req[p].op = "managerUpdateClub" /\ req[p].pc = "update"
  /\ LET o == req[p].id.oid
         body == req[p].club
     IN IF clubs[o].exists
          THEN /\ clubs' = [clubs EXCEPT
                   ![o].status = IF body.status = "-" THEN @ ELSE body.status,
                   ![o].fee = IF body.fee = Undef THEN @ ELSE UpdatedFee(body.fee),
                   ![o].memberCount = IF body.memberCount = Undef THEN @
                                      ELSE body.memberCount,
                   ![o].managerEmail = IF body.managerEmail = "-" THEN @
                                       ELSE body.managerEmail,
                   ![o].deletionRequest = IF body.deletionRequest = "-" THEN @
                                          ELSE body.deletionRequest,
                   ![o].name = IF body.name = "-" THEN @ ELSE body.name]
               /\ req' = [req EXCEPT ![p] = Done(req[p], "ok", 0)]
          ELSE /\ clubs' = clubs
               /\ req' = [req EXCEPT ![p] = Done(req[p], "404 Club not found", 0)]
  /\ UNCHANGED <<app, users, events, memberships, registrations, nextMem, nextReg, intents>>

\* the other fields of the body an update request carries
OtherFieldsOf(r) == [memberCount |-> r.club.memberCount, managerEmail |-> r.club.managerEmail,
                     deletionRequest |-> r.club.deletionRequest, name |-> r.club.name]
\* the update requests whose bodies give at most a status and a fee
StatusAndFeeOnly(p) ==
  (req'[p].op = "managerUpdateClub" /\ req'[p].pc = "update")
  => OtherFieldsOf(req'[p]) = NoOtherFields
\* the update requests whose bodies give at most a deletionRequest
DeletionRequestOnly(p) ==
  (req'[p].op = "managerUpdateClub" /\ req'[p].pc = "update")
  => /\ req'[p].club.status = "-" /\ req'[p].club.fee = Undef
     /\ [OtherFieldsOf(req'[p]) EXCEPT !.deletionRequest = "-"] = NoOtherFields

\* Clubs are created by the admin and by managers, edited by both, approved and
\* rejected by the admin and joined by a member, one request at a time.
NextClubs ==
  \E p \in Procs :
    \/ Serial(p) /\ AdminCreateClubFindManager(p)
    \/ Serial(p) /\ AdminCreateClubInsert(p)
    \/ Serial(p) /\ ManagerCreateClub(p)
    \/ Serial(p) /\ AdminUpdateClubFind(p)
    \/ Serial(p) /\ AdminUpdateClubFindManager(p)
    \/ Serial(p) /\ AdminUpdateClubSet(p)
    \/ Serial(p) /\ AdminApproveClub(p)
    \/ Serial(p) /\ AdminRejectClub(p)
    \/ Serial(p) /\ ManagerUpdateClubFind(p)
    \/ Serial(p) /\ ManagerUpdateClubSet(p)
    \/ Serial(p) /\ ClubRegisterFreeFindClub(p) /\ req'[p].user = "u1"
    \/ Serial(p) /\ ClubRegisterFreeExisting(p)
    \/ Serial(p) /\ ClubRegisterFreeInsert(p)
    \/ Serial(p) /\ ClubRegisterFreeInc(p)
    \/ Serial(p) /\ Respond(p)
SpecClubs == Init /\ [][NextClubs]_vars

\* Managers create and edit their clubs and members join, one request at a time;
\* no admin request is served.
NextPending ==
  \E p \in Procs :
    \/ Serial(p) /\ ManagerCreateClub(p)
    \/ Serial(p) /\ ManagerUpdateClubFind(p) /\ StatusAndFeeOnly(p)
    \/ Serial(p) /\ ManagerUpdateClubSet(p)
    \/ Serial(p) /\ ClubRegisterFreeFindClub(p)
    \/ Serial(p) /\ ClubRegisterFreeExisting(p)
    \/ Serial(p) /\ ClubRegisterFreeInsert(p)
    \/ Serial(p) /\ ClubRegisterFreeInc(p)
    \/ Serial(p) /\ ClubCreateIntentFindClub(p)
    \/ Serial(p) /\ ClubCreateIntentExisting(p)
    \/ Serial(p) /\ ClubCreateIntentStripe(p)
    \/ Serial(p) /\ Respond(p)
SpecPending == Init /\ [][NextPending]_vars

\* C19: a club created by a manager has no membership and no payment intent before
\* an admin has made it active; here no admin request is ever served.
C19_NoJoinBeforeApproval == memberships = {} /\ intents = <<>>

\* ------------------------------------------------------------- user accounts
\* the role of a registration body; "-" stands for a body without one
RoleInputs == Roles \cup {"-"}

\* String.prototype.toLowerCase on the strings of the model
toLowerCase(s) == IF s = "clubManager" THEN "clubmanager"
                  ELSE IF s = "Chess" THEN "chess" ELSE s

\* const { ..., role = 'member' } = req.body
DefaultRole(role) == IF role = "-" THEN "member" ELSE role

\* the _id insertOne gives a new user
NewUserId == CHOOSE i \in UserIds :
               users[i].state = "free" /\ \A j \in UserIds : users[j].state = "free" => i <= j

\* usersCollection.insertOne(doc)
InsertUser(doc) ==
  /\ \E i \in UserIds : users[i].state = "free"
  /\ users' = [users EXCEPT ![NewUserId] = doc]

\* POST /register: usersCollection.findOne({email}); email, password and name are
\* present in every body of the model.
RegisterFindUser(p) ==
  /\ req[p].op = "idle"
  /\ \E e \in Emails, role \in RoleInputs :
       IF FindUser(e) # 0
       THEN req' = [req EXCEPT ![p] =
                      Done([Idle EXCEPT !.op = "register", !.email = e, !.role = role],
                           "400 User already exists", 0)]
       ELSE req' = [req EXCEPT ![p] =
                      [Idle EXCEPT !.op = "register", !.pc = "hash",
                                   !.email = e, !.role = DefaultRole(role)]]
  /\ UNCHANGED <<app, users, Database, intents>>

\* POST /register: bcrypt.hash(password, 10) resolves
RegisterHash(p) ==
  /\ req[p].op = "register" /\ req[p].pc = "hash"
  /\ req' = [req EXCEPT ![p].pc = "insert"]
  /\ UNCHANGED <<app, users, Database, intents>>

\* POST /register: insertOne of the user with role: role.toLowerCase()
RegisterInsert(p) ==
  /\ req[p].op = "register" /\ req[p].pc = "insert"
  /\ InsertUser([state |-> "live", email |-> req[p].email,
                 role |-> toLowerCase(req[p].role), photoURL |-> "-"])
  /\ req' = [req EXCEPT ![p] = [Done(req[p], "201 User created successfully", 0)
                                  EXCEPT !.email = req[p].email, !.role = req[p].role]]
  /\ UNCHANGED <<app, Database, intents>>

\* the body of POST /google: the address, whether a name is given, the photoURL
GoogleRequest(e, name, photo) ==
  [Idle EXCEPT !.op = "google", !.email = e, !.name = name, !.photoURL = photo]

\* POST /google with FIREBASE_SERVICE_ACCOUNT_KEY set: admin.auth().verifyIdToken
GoogleVerifyIdToken(p) ==
  /\ req[p].op = "idle"
  /\ \E e \in Emails, name \in BOOLEAN, photo \in PhotoURLs :
       req' = [req EXCEPT ![p] = [GoogleRequest(e, name, photo) EXCEPT !.pc = "verify"]]
  /\ UNCHANGED <<app, users, Database, intents>>

\* verifyIdToken settles: it rejects (401 Invalid ID token), names another address
\* (401 Email mismatch) or names the address of the body.
GoogleVerified(p) ==
  /\ req[p].op = "google" /\ req[p].pc = "verify"
  /\ \E outcome \in {"rejected", "mismatch", "verified"} :
       req' = [req EXCEPT ![p] =
                 IF outcome = "rejected" THEN Done(req[p], "401 Invalid ID token", 0)
                 ELSE IF outcome = "mismatch" THEN Done(req[p], "401 Email mismatch", 0)
                 ELSE [req[p] EXCEPT !.pc = "find", !.verified = TRUE]]
  /\ UNCHANGED <<app, users, Database, intents>>

\* what POST /google does with the result of usersCollection.findOne({email}): an
\* existing user is signed in, after an update when the photoURL of the body is
\* another; a new user is built, which throws when there is neither a name nor a
\* decoded token.
GoogleFound(r, u) ==
  IF u # 0
  THEN IF r.photoURL # "-" /\ users[u].photoURL # r.photoURL
       THEN [r EXCEPT !.pc = "photo", !.uid = u]
       ELSE Done(r, "200", 0)
  ELSE IF ~r.name /\ ~r.verified THEN Done(r, "500 Internal server error", 0)
  ELSE [r EXCEPT !.pc = "insert"]

\* POST /google: usersCollection.findOne({email}), the first awaited call when
\* Firebase Admin is not configured
GoogleFindUser(p) ==
  /\ \/ /\ req[p].op = "idle"
        /\ \E e \in Emails, name \in BOOLEAN, photo \in PhotoURLs :
             req' = [req EXCEPT ![p] =
                       GoogleFound(GoogleRequest(e, name, photo), FindUser(e))]
     \/ /\ req[p].op = "google" /\ req[p].pc = "find"
        /\ req' = [req EXCEPT ![p] = GoogleFound(req[p], FindUser(req[p].email))]
  /\ UNCHANGED <<app, users, Database, intents>>

\* POST /google: updateOne({_id: user._id}, {$set: {photoURL, updatedAt}})
GooglePhotoUpdate(p) ==
  /\ req[p].op = "google" /\ req[p].pc = "photo"
  /\ users' = IF users[req[p].uid].state = "live"
              THEN [users EXCEPT ![req[p].uid].photoURL = req[p].photoURL]
              ELSE users
  /\ req' = [req EXCEPT ![p] = Done(req[p], "200", 0)]
  /\ UNCHANGED <<app, Database, intents>>

\* POST /google: insertOne of the new user with role: 'member'
GoogleInsert(p) ==
  /\ req[p].op = "google" /\ req[p].pc = "insert"
  /\ InsertUser([state |-> "live", email |-> req[p].email, role |-> "member",
                 photoURL |-> req[p].photoURL])
  /\ req' = [req EXCEPT ![p] = Done(req[p], "201", 0)]
  /\ UNCHANGED <<app, Database, intents>>

\* PUT /admin/users/:id: updateOne({_id}, {$set: {role, updatedAt}}) with the role
\* of the body, which is only required to be present.
AdminUpdateUserRole(p) ==
  /\ req[p].op = "idle"
  /\ \E i \in UserIds, role \in RoleInputs :
       LET r == [Idle EXCEPT !.op = "updateUserRole", !.uid = i, !.role = role] IN
       IF role = "-"
       THEN /\ users' = users
            /\ req' = [req EXCEPT ![p] = [Done(r, "400 Role is required", 0)
                                            EXCEPT !.uid = i]]
       ELSE IF users[i].state = "live"
       THEN /\ users' = [users EXCEPT ![i].role = role]
            /\ req' = [req EXCEPT ![p] = [Done(r, "User updated successfully", 0)
                                            EXCEPT !.uid = i]]
       ELSE /\ users' = users
            /\ req' = [req EXCEPT ![p] = [Done(r, "404 User not found", 0)
                                            EXCEPT !.uid = i]]
  /\ UNCHANGED <<app, Database, intents>>

\* DELETE /admin/users/:id: deleteOne({_id})
AdminDeleteUser(p) ==
  /\ req[p].op = "idle"
  /\ \E i \in UserIds :
       LET r == [Idle EXCEPT !.op = "deleteUser", !.uid = i] IN
       IF users[i].state = "live"
       THEN /\ users' = [users EXCEPT ![i] = DeletedUser]
            /\ req' = [req EXCEPT ![p] = [Done(r, "User deleted successfully", 0)
                                            EXCEPT !.uid = i]]
       ELSE /\ users' = users
            /\ req' = [req EXCEPT ![p] = [Done(r, "404 User not found", 0)
                                            EXCEPT !.uid = i]]
  /\ UNCHANGED <<app, Database, intents>>

\* PUT /member/settings/profile: updateOne({_id: userId}, {$set: updateData}) with
\* the email and the photoURL of the body when they are given; the user is the one
\* of the token.
UpdateProfile(p) ==
  /\ req[p].op = "idle"
  /\ \E i \in UserIds, e \in Emails \cup {"-"}, photo \in PhotoURLs :
       LET r == [Idle EXCEPT !.op = "updateProfile", !.uid = i, !.email = e,
                             !.photoURL = photo] IN
       IF users[i].state = "live"
       THEN /\ users' = [users EXCEPT
                           ![i].email = IF e = "-" THEN @ ELSE e,
                           ![i].photoURL = IF photo = "-" THEN @ ELSE photo]
            /\ req' = [req EXCEPT ![p] = [Done(r, "Profile updated successfully", 0)
                                            EXCEPT !.uid = i]]
       ELSE /\ users' = users
            /\ req' = [req EXCEPT ![p] = [Done(r, "404 User not found", 0)
                                            EXCEPT !.uid = i]]
  /\ UNCHANGED <<app, Database, intents>>

\* Accounts are opened by registration and by Google sign-in, their roles are
\* changed and they are deleted by the admin and edited by their owners, one
\* request at a time.
NextUsers ==
  \E p \in Procs :
    \/ Serial(p) /\ RegisterFindUser(p)
    \/ Serial(p) /\ RegisterHash(p)
    \/ Serial(p) /\ RegisterInsert(p)
    \/ Serial(p) /\ GoogleVerifyIdToken(p)
    \/ Serial(p) /\ GoogleVerified(p)
    \/ Serial(p) /\ GoogleFindUser(p)
    \/ Serial(p) /\ GooglePhotoUpdate(p)
    \/ Serial(p) /\ GoogleInsert(p)
    \/ Serial(p) /\ AdminUpdateUserRole(p)
    \/ Serial(p) /\ AdminDeleteUser(p)
    \/ Serial(p) /\ UpdateProfile(p)
    \/ Serial(p) /\ Respond(p)
SpecUsers == Init /\ [][NextUsers]_vars

\* Registrations, deletions of users and creations of clubs by the admin, their
\* steps interleaved: two registrations of one address can both pass findOne, and
\* the manager of a club can be deleted between the two calls that create it. The
\* club manager is the only account at the start.
InitAccounts ==
  /\ app = Running
  /\ users = [i \in UserIds |-> IF i = 1 THEN SeedUsers[2] ELSE NoUser]
  /\ clubs = [o \in ClubOids |-> NoClub]
  /\ events = [o \in EventOids |-> NoEvent]
  /\ memberships = {}
  /\ registrations = {}
  /\ intents = <<>>
  /\ nextMem = 1
  /\ nextReg = 1
  /\ req = [p \in Procs |-> Idle]

NextAccounts ==
  \E p \in Procs :
    \/ RegisterFindUser(p)
    \/ RegisterHash(p)
    \/ RegisterInsert(p)
    \/ AdminDeleteUser(p)
    \/ AdminCreateClubFindManager(p)
    \/ AdminCreateClubInsert(p)
    \/ Respond(p)
SpecAccounts == InitAccounts /\ [][NextAccounts]_vars

\* C20: the role of every stored user is one of admin, clubManager, member.
C20_RolesValid == \A i \in UserIds : users[i].state = "live" => users[i].role \in Roles

\* ------------------------------------------------- deletion request lifecycle
\* Clubs and events are created and joined, clubs asked to be deleted, and the requests approved or
\* rejected, one request at a time.
NextLifecycle ==
  \E p \in Procs :
    \/ Serial(p) /\ AdminCreateClubFindManager(p)
    \/ Serial(p) /\ AdminCreateClubInsert(p)
    \/ Serial(p) /\ AdminCreateEventFindClub(p)
    \/ Serial(p) /\ AdminCreateEventInsert(p)
    \/ Serial(p) /\ RegisterFreeFindEvent(p)
    \/ Serial(p) /\ RegisterFreeExisting(p)
    \/ Serial(p) /\ RegisterFreeCount(p)
    \/ Serial(p) /\ RegisterFreeInsert(p)
    \/ Serial(p) /\ ClubRegisterFreeFindClub(p)
    \/ Serial(p) /\ ClubRegisterFreeExisting(p)
    \/ Serial(p) /\ ClubRegisterFreeInsert(p)
    \/ Serial(p) /\ ClubRegisterFreeInc(p)
    \/ Serial(p) /\ ManagerUpdateClubFind(p) /\ DeletionRequestOnly(p)
    \/ Serial(p) /\ ManagerUpdateClubSet(p)
    \/ Serial(p) /\ RequestDeletionFindClub(p)
    \/ Serial(p) /\ RequestDeletionUpdate(p)
    \/ Serial(p) /\ RejectDeletionFindClub(p)
    \/ Serial(p) /\ RejectDeletionUpdate(p)
    \/ Serial(p) /\ ApproveDeletionFindClub(p)
    \/ Serial(p) /\ ApproveDeletionFindEvents(p)
    \/ Serial(p) /\ ApproveDeletionRegistrations(p)
    \/ Serial(p) /\ ApproveDeletionEvents(p)
    \/ Serial(p) /\ ApproveDeletionMemberships(p)
    \/ Serial(p) /\ ApproveDeletionClub(p)
    \/ Serial(p) /\ Respond(p)
SpecLifecycle == Init /\ [][NextLifecycle]_vars

\* where club o stands in its deletion lifecycle
Lifecycle(o) ==
  IF clubs[o].exists THEN clubs[o].deletionRequest
  ELSE IF clubs[o] = DeletedClub THEN "approved" ELSE "absent"

\* the handler that takes the step
Stepping(p, op) == req'[p] # req[p] /\ req'[p].op = op

\* the steps by which club o moves in its lifecycle
LifecycleStep(o) ==
  LET from == Lifecycle(o)
      to == Lifecycle(o)'
  IN \/ from = to
     \/ from = "absent" /\ to = "none"
     \/ /\ from = "none" /\ to = "pending"
        /\ \E p \in Procs : /\ Stepping(p, "requestDeletion") /\ req'[p].res = "ok"
                            /\ req'[p].user = clubs[o].managerEmail
                            /\ req'[p].id.oid = o
     \/ /\ from = "pending" /\ to = "none"
        /\ \E p \in Procs : /\ Stepping(p, "rejectDeletion") /\ req'[p].res = "ok"
                            /\ req'[p].id.oid = o
     \/ /\ from = "pending" /\ to = "approved"
        /\ \E p \in Procs : /\ Stepping(p, "approveDeletion") /\ req'[p].res = "ok"
                            /\ req'[p].id.oid = o

\* a request that arrives for a club outside the state its handler asks for is
\* answered with an error at once
Refused(p) ==
  LET club == FindClub(req'[p].id)
      op == req'[p].op
  IN (req[p].op = "idle" /\ op \in {"requestDeletion", "rejectDeletion", "approveDeletion"})
     => /\ (op = "requestDeletion" /\ club.exists /\ club.managerEmail # req'[p].user)
            => req'[p].res = "404 Club not found or access denied"
        /\ (op = "requestDeletion" /\ club.exists /\ club.managerEmail = req'[p].user
              /\ club.deletionRequest = "pending")
            => req'[p].res = "400 Deletion request already pending for this club"
        /\ (op # "requestDeletion" /\ club.exists /\ club.deletionRequest # "pending")
            => req'[p].res = "400 No pending deletion request found for this club"
        /\ ~club.exists => req'[p].pc = "done" /\ req'[p].res \notin {"ok", "-"}

\* a handler that answers an error has changed nothing in the store
ErrorChangesNothing(p) ==
  (/\ req'[p] # req[p] /\ req'[p].pc = "done" /\ req'[p].res # "ok"
   /\ req'[p].op \in {"requestDeletion", "rejectDeletion", "approveDeletion"})
  => UNCHANGED <<clubs, events, registrations, memberships>>

\* C21: a club's deletion request goes from none to pending only by a request of
\* the owning manager, from pending to none only by a rejection and from pending
\* to approved (the club is gone for good) only by an approval; a request by another
\* manager or while one is pending, and an approval or rejection while none is
\* pending, are answered with an error and change nothing.
C21_DeletionLifecycle ==
  [][/\ \A o \in ClubOids : LifecycleStep(o)
     /\ \A p \in Procs : Refused(p) /\ ErrorChangesNothing(p)]_vars

\* ------------------------------------------------------ order of the cascade
\* a registration whose event has been deleted
DanglingRegistrations ==
  {r \in registrations : \E o \in EventOids : RefersTo(r.eventId, o) /\ events[o] = DeletedEvent}
\* an event or a membership whose club has been deleted
DanglingEvents ==
  {o \in EventOids : events[o].exists
                      /\ \E c \in ClubOids : RefersTo(events[o].clubId, c) /\ clubs[c] = DeletedClub}
DanglingMemberships ==
  {m \in memberships : \E c \in ClubOids : RefersTo(m.clubId, c) /\ clubs[c] = DeletedClub}

\* approve-deletion handler p stands between two of its deletes
MidCascade(p) ==
  req[p].op = "approveDeletion" /\ req[p].pc \in {"deleteEvents", "memberships", "club"}

\* C22: between the deletes of an approval served with no other request interleaved
\* (registrations, then events, then memberships, then the club) no remaining
\* registration refers to a deleted event and no remaining event or membership
\* refers to a deleted club.
C22_NoDanglingMidCascade ==
  \A p \in Procs :
    MidCascade(p) => /\ DanglingRegistrations = {}
                     /\ DanglingEvents = {}
                     /\ DanglingMemberships = {}

\* --------------------------------------------------- failure inside the cascade
\* PUT /admin/clubs/:id/approve-deletion: an awaited store call throws and the
\* catch block answers 500; what was deleted before stays deleted.
ApproveDeletionFail(p) ==
  /\ req[p].op = "approveDeletion"
  /\ req[p].pc \in {"events", "registrations", "deleteEvents", "memberships", "club"}
  /\ req' = [req EXCEPT ![p] = [Done(req[p], "500 Internal server error", 0) EXCEPT
                                  !.club = req[p].club, !.evs = req[p].evs,
                                  !.at = req[p].pc]]
  /\ UNCHANGED <<app, users, Database, intents>>

\* handler p takes a step while no other handler is between two awaits
Turn(p) == \A q \in Procs \ {p} : req[q].pc \in {"idle", "done"}

\* One approval, served in slot 2, may fail at any of its awaits and its answer
\* stays on record; every other request, the repeated approval among them, is
\* served in slot 1 without failure.  No two handlers are interleaved.
NextRetry ==
  \/ Turn(1) /\ AdminCreateClubFindManager(1)
  \/ Turn(1) /\ AdminCreateClubInsert(1)
  \/ Turn(1) /\ AdminCreateEventFindClub(1)
  \/ Turn(1) /\ AdminCreateEventInsert(1)
  \/ Turn(1) /\ RegisterFreeFindEvent(1)
  \/ Turn(1) /\ RegisterFreeExisting(1)
  \/ Turn(1) /\ RegisterFreeCount(1)
  \/ Turn(1) /\ RegisterFreeInsert(1)
  \/ Turn(1) /\ ClubRegisterFreeFindClub(1)
  \/ Turn(1) /\ ClubRegisterFreeExisting(1)
  \/ Turn(1) /\ ClubRegisterFreeInsert(1)
  \/ Turn(1) /\ ClubRegisterFreeInc(1)
  \/ Turn(1) /\ RequestDeletionFindClub(1)
  \/ Turn(1) /\ RequestDeletionUpdate(1)
  \/ Turn(1) /\ ApproveDeletionFindClub(1)
  \/ Turn(1) /\ ApproveDeletionFindEvents(1)
  \/ Turn(1) /\ ApproveDeletionRegistrations(1)
  \/ Turn(1) /\ ApproveDeletionEvents(1)
  \/ Turn(1) /\ ApproveDeletionMemberships(1)
  \/ Turn(1) /\ ApproveDeletionClub(1)
  \/ Turn(1) /\ Respond(1)
  \/ Turn(2) /\ ApproveDeletionFindClub(2)
  \/ Turn(2) /\ ApproveDeletionFindEvents(2)
  \/ Turn(2) /\ ApproveDeletionRegistrations(2)
  \/ Turn(2) /\ ApproveDeletionEvents(2)
  \/ Turn(2) /\ ApproveDeletionMemberships(2)
  \/ Turn(2) /\ ApproveDeletionClub(2)
  \/ Turn(2) /\ ApproveDeletionFail(2)
SpecRetry == Init /\ [][NextRetry]_vars

\* approve-deletion has answered the failure of one of its store calls
Failed(q) ==
  req[q].op = "approveDeletion" /\ req[q].pc = "done"
    /\ req[q].res = "500 Internal server error"

\* the approval of p repeats the failed approval of q
Retried(p, q) == Failed(q) /\ Approved(p) /\ req[p].id.oid = req[q].id.oid

\* C23: when an approval has failed at one of its store calls and the approval of
\* the same club is issued again and answers success, no club document, no event,
\* no registration of the club's events and no membership of the club remains.
C23_RetryCompletes ==
  \A p, q \in Procs :
    Retried(p, q) =>
      LET c == req[p].id.oid
          name == req[p].club.name
      IN /\ ~clubs[c].exists
         /\ EventsLeft(c, name) = {}
         /\ RegistrationsLeft(c, name, req[p].evs \cup req[q].evs) = {}
         /\ MembershipsLeft(c) = {}

\* ----------------------------------------------------------- upcoming events
\* find({date: {$gte: now}, status: 'active'}) of GET /api/events/upcoming
UpcomingEventsFilter(now) ==
  {o \in EventOids : events[o].exists /\ events[o].date >= now /\ events[o].status = "active"}

\* GET /api/events/upcoming (public): the events whose date is not before now
ListUpcomingEvents(p) ==
  /\ req[p].op = "idle"
  /\ \E now \in Now :
       req' = [req EXCEPT ![p] =
                 [Done(Request("listUpcoming", "-", NoId, 0, 0), "ok", 0) EXCEPT
                    !.now = now, !.evs = UpcomingEventsFilter(now)]]
  /\ UNCHANGED <<app, users, Database, intents>>

\* The member's list of events, cancellation and the public list of upcoming
\* events, one request at a time, while events pass.
NextDates ==
  \/ \E p \in Procs :
       \/ Serial(p) /\ AdminCreateClubFindManager(p)
       \/ Serial(p) /\ AdminCreateClubInsert(p)
       \/ Serial(p) /\ AdminCreateEventFindClub(p)
       \/ Serial(p) /\ AdminCreateEventInsert(p)
       \/ Serial(p) /\ RegisterFreeFindEvent(p)
       \/ Serial(p) /\ RegisterFreeExisting(p)
       \/ Serial(p) /\ RegisterFreeCount(p)
       \/ Serial(p) /\ RegisterFreeInsert(p)
       \/ Serial(p) /\ CancelFindRegistration(p)
       \/ Serial(p) /\ CancelFindEvent(p)
       \/ Serial(p) /\ CancelUpdate(p)
       \/ Serial(p) /\ ListEventsFind(p)
       \/ Serial(p) /\ ListEventsDetails(p)
       \/ Serial(p) /\ ListEventsDetailsClub(p)
       \/ Serial(p) /\ ListEventsAll(p)
       \/ Serial(p) /\ ListEventsCountWaitlist(p)
       \/ Serial(p) /\ ListEventsCountCancelled(p)
       \/ Serial(p) /\ ListEventsCounts(p)
       \/ Serial(p) /\ ListUpcomingEvents(p)
       \/ Serial(p) /\ Respond(p)
  \/ Quiet /\ EventPasses
SpecDates == Init /\ [][NextDates]_vars

\* the events that take place today or later
OnOrAfterToday(now) ==
  {o \in EventOids : events[o].exists /\ events[o].status = "active"
                      /\ DayOf(events[o].date) >= DayOf(now)}

\* C24: past means that the event's calendar day is before today in every
\* decision: the event of each registration listed under the upcoming tab is not
\* past for the cancel check, and the public list of upcoming events holds the
\* active events of today and later.
C24_DateOnlyEverywhere ==
  \A p \in Procs :
    /\ (Answered(p, "listEvents") /\ req[p].tab = "upcoming") =>
         \A r \in registrations :
           r.id \in req[p].list => ~PastEvent(FindEvent(ObjectId(r.eventId)))
    /\ Answered(p, "listUpcoming") => req[p].evs = OnOrAfterToday(req[p].now)

\* ------------------------------------------------------------ paid amounts
\* the fields of a body of PUT /admin/events/:id and PUT /manager/events/:id other
\* than status and fee; Undef and NoId are absent fields
NoEventFields == [price |-> Undef, date |-> Undef, maxAttendees |-> Undef, clubId |-> NoId]
EventOtherFields ==
  {NoEventFields, [NoEventFields EXCEPT !.price = 700], [NoEventFields EXCEPT !.date = 9],
   [NoEventFields EXCEPT !.maxAttendees = 0], [NoEventFields EXCEPT !.maxAttendees = 1]}
  \cup {[NoEventFields EXCEPT !.clubId = id] : id \in ClubIdStrings}

\* the bodies of the two handlers: any fields
EventUpdateBodies == [status : {"-", "cancelled"}, fee : {Undef, 700},
                      other : EventOtherFields]
\* the bodies that give at most a status and a fee
EventStatusAndFee == {body \in EventUpdateBodies : body.other = NoEventFields}

\* $set of the fields of a body on event ev at instant t. The admin's handler turns
\* clubId into an ObjectId and maxAttendees into a number or null and stores the
\* price as it is given; the manager's stores Math.round(price * 100). The price of a
\* body is in hundredths, the price stored is the number itself.
SetEventFields(ev, body, admin, t) ==
  [ev EXCEPT
     !.status = IF body.status = "-" THEN @ ELSE body.status,
     !.fee = IF body.fee = Undef THEN @ ELSE body.fee,
     !.price = IF body.other.price = Undef THEN @
               ELSE IF admin THEN body.other.price \div 100
               ELSE MathRound(body.other.price * 100) \div 100,
     !.date = IF body.other.date = Undef THEN @ ELSE body.other.date,
     !.past = IF body.other.date = Undef THEN @ ELSE body.other.date < t,
     !.maxAttendees = IF body.other.maxAttendees = Undef THEN @
                      ELSE body.other.maxAttendees,
     !.clubId = IF body.other.clubId = NoId THEN @
                ELSE IF admin THEN ObjectId(body.other.clubId)
                ELSE body.other.clubId]

\* PUT /admin/events/:id with a body of the given ones:
\* updateOne({_id}, {$set: {...restData, updatedAt}})
AdminUpdateEvent(p, bodies) ==
  /\ req[p].op = "idle"
  /\ \E id \in EventIdStrings, body \in bodies, t \in Now :
       LET r == Request("adminUpdateEvent", "-", id, 0, 0)
           o == id.oid
       IN IF events[o].exists
            THEN /\ events' = [events EXCEPT ![o] = SetEventFields(@, body, TRUE, t)]
                 /\ req' = [req EXCEPT ![p] = Done(r, "ok", 0)]
            ELSE /\ events' = events
                 /\ req' = [req EXCEPT ![p] = Done(r, "404 Event not found", 0)]
  /\ UNCHANGED <<app, users, clubs, memberships, registrations, nextMem, nextReg, intents>>

\* DELETE /admin/events/:id: deleteOne({_id}); the registrations are left
AdminDeleteEvent(p) ==
  /\ req[p].op = "idle"
  /\ \E id \in EventIdStrings :
       LET r == Request("adminDeleteEvent", "-", id, 0, 0) IN
       IF FindEvent(id).exists
         THEN /\ events' = [events EXCEPT ![id.oid] = DeletedEvent]
              /\ req' = [req EXCEPT ![p] = Done(r, "ok", 0)]
         ELSE /\ events' = events
              /\ req' = [req EXCEPT ![p] = Done(r, "404 Event not found", 0)]
  /\ UNCHANGED <<app, users, clubs, memberships, registrations, nextMem, nextReg, intents>>

\* PUT and DELETE /manager/events/:id, to the first await: the event is read
ManagerEventFind(p, op, bodies) ==
  /\ req[p].op = "idle"
  /\ \E m \in Managers, id \in EventIdStrings, body \in bodies :
       LET r == Request(op, m, id, 0, 0)
           ev == FindEvent(id)
       IN req' = [req EXCEPT ![p] =
            IF ~ev.exists THEN Done(r, "404 Event not found", 0)
            ELSE [r EXCEPT !.pc = "club", !.ev = ev, !.body = body]]
  /\ UNCHANGED <<app, users, Database, intents>>

\* clubsCollection.findOne({_id: new ObjectId(event.clubId), managerEmail}): the
\* club of the event that was read must be the manager's own
ManagerEventFindClub(p, op) ==
  /\ req[p].op = op /\ req[p].pc = "club"
  /\ LET club == FindClub(ObjectId(req[p].ev.clubId)) IN
       req' = [req EXCEPT ![p] =
         IF ~club.exists \/ club.managerEmail # req[p].user
           THEN Done(req[p], "403 Access denied", 0)
         ELSE [req[p] EXCEPT !.pc = "write"]]
  /\ UNCHANGED <<app, users, Database, intents>>

ManagerUpdateEventFind(p) == ManagerEventFind(p, "managerUpdateEvent", EventUpdateBodies)
ManagerUpdateEventFindClub(p) == ManagerEventFindClub(p, "managerUpdateEvent")

\* PUT /manager/events/:id: updateOne({_id}, {$set: {...updateData, updatedAt}})
ManagerUpdateEventSet(p) ==
  /\ req[p].op = "managerUpdateEvent" /\ req[p].pc = "write"
  /\ LET o == req[p].id.oid IN
       IF events[o].exists
         THEN /\ \E t \in Now :
                   events' = [events EXCEPT
                                ![o] = SetEventFields(@, req[p].body, FALSE, t)]
              /\ req' = [req EXCEPT ![p] = Done(req[p], "ok", 0)]
         ELSE /\ events' = events
              /\ req' = [req EXCEPT ![p] = Done(req[p], "404 Event not found", 0)]
  /\ UNCHANGED <<app, users, clubs, memberships, registrations, nextMem, nextReg, intents>>

ManagerDeleteEventFind(p) ==
  ManagerEventFind(p, "managerDeleteEvent", {[status |-> "-", fee |-> Undef,
                                              other |-> NoEventFields]})
ManagerDeleteEventFindClub(p) == ManagerEventFindClub(p, "managerDeleteEvent")

\* DELETE /manager/events/:id: deleteOne({_id}); the registrations are left
ManagerDeleteEventDelete(p) ==
  /\ req[p].op = "managerDeleteEvent" /\ req[p].pc = "write"
  /\ LET o == req[p].id.oid IN
       IF events[o].exists
         THEN /\ events' = [events EXCEPT ![o] = DeletedEvent]
              /\ req' = [req EXCEPT ![p] = Done(req[p], "ok", 0)]
         ELSE /\ events' = events
              /\ req' = [req EXCEPT ![p] = Done(req[p], "404 Event not found", 0)]
  /\ UNCHANGED <<app, users, clubs, memberships, registrations, nextMem, nextReg, intents>>

\* Events are created, edited and deleted by the admin and by the managers of their
\* clubs and a member registers, one request at a time, while events pass.
NextEvents ==
  \/ \E p \in Procs :
       \/ Serial(p) /\ AdminCreateClubFindManager(p)
       \/ Serial(p) /\ AdminCreateClubInsert(p)
       \/ Serial(p) /\ AdminCreateEventFindClub(p)
       \/ Serial(p) /\ AdminCreateEventInsert(p)
       \/ Serial(p) /\ ManagerCreateEventFindClub(p)
       \/ Serial(p) /\ ManagerCreateEventInsert(p)
       \/ Serial(p) /\ AdminUpdateEvent(p, EventUpdateBodies)
       \/ Serial(p) /\ AdminDeleteEvent(p)
       \/ Serial(p) /\ ManagerUpdateEventFind(p)
       \/ Serial(p) /\ ManagerUpdateEventFindClub(p)
       \/ Serial(p) /\ ManagerUpdateEventSet(p)
       \/ Serial(p) /\ ManagerDeleteEventFind(p)
       \/ Serial(p) /\ ManagerDeleteEventFindClub(p)
       \/ Serial(p) /\ ManagerDeleteEventDelete(p)
       \/ Serial(p) /\ RegisterFreeFindEvent(p) /\ req'[p].user = "u1"
       \/ Serial(p) /\ RegisterFreeExisting(p)
       \/ Serial(p) /\ RegisterFreeCount(p)
       \/ Serial(p) /\ RegisterFreeInsert(p)
       \/ Serial(p) /\ Respond(p)
  \/ Quiet /\ EventPasses
SpecEvents == Init /\ [][NextEvents]_vars

\* the requests of member u1, with ids as the server prints them
OneMember(p) == req'[p].user # "u2" /\ req'[p].id.sp # "upper"

\* The paid paths of clubs and events for one member, one request at a time, while
\* managers and admins edit the clubs and events and the payer completes payments.
NextAmounts ==
  \/ \E p \in Procs :
       \/ Serial(p) /\ AdminCreateClubFindManager(p) /\ OneMember(p)
       \/ Serial(p) /\ AdminCreateClubInsert(p) /\ OneMember(p)
       \/ Serial(p) /\ AdminCreateEventFindClub(p) /\ OneMember(p)
       \/ Serial(p) /\ AdminCreateEventInsert(p) /\ OneMember(p)
       \/ Serial(p) /\ ManagerUpdateClubFind(p) /\ OneMember(p) /\ StatusAndFeeOnly(p)
       \/ Serial(p) /\ ManagerUpdateClubSet(p) /\ OneMember(p)
       \/ Serial(p) /\ AdminUpdateEvent(p, EventStatusAndFee) /\ OneMember(p)
       \/ Serial(p) /\ CreateIntentFindEvent(p) /\ OneMember(p)
       \/ Serial(p) /\ CreateIntentExisting(p) /\ OneMember(p)
       \/ Serial(p) /\ CreateIntentCount(p) /\ OneMember(p)
       \/ Serial(p) /\ CreateIntentStripe(p) /\ OneMember(p)
       \/ Serial(p) /\ ConfirmRetrieve(p) /\ OneMember(p)
       \/ Serial(p) /\ ConfirmExisting(p) /\ OneMember(p)
       \/ Serial(p) /\ ConfirmFindEvent(p) /\ OneMember(p)
       \/ Serial(p) /\ ConfirmInsert(p) /\ OneMember(p)
       \/ Serial(p) /\ ClubCreateIntentFindClub(p) /\ OneMember(p)
       \/ Serial(p) /\ ClubCreateIntentExisting(p) /\ OneMember(p)
       \/ Serial(p) /\ ClubCreateIntentStripe(p) /\ OneMember(p)
       \/ Serial(p) /\ ClubConfirmRetrieve(p) /\ OneMember(p)
       \/ Serial(p) /\ ClubConfirmExisting(p) /\ OneMember(p)
       \/ Serial(p) /\ ClubConfirmFindClub(p) /\ OneMember(p) /\ AtEnds(p)
       \/ Serial(p) /\ ClubConfirmInsert(p) /\ OneMember(p)
       \/ Serial(p) /\ ClubConfirmInc(p) /\ OneMember(p)
       \/ Serial(p) /\ Respond(p)
  \/ Quiet /\ PaymentSucceeds
SpecAmounts == Init /\ [][NextAmounts]_vars

\* the three amounts of an intent's metadata are the numerals of fee, of its
\* service fee and of their sum
MetadataOf(pi, fee) ==
  /\ pi.fee = NumberToString(fee)
  /\ pi.serviceFee = NumberToString(calculateServiceFee(fee))
  /\ pi.totalAmount = NumberToString(fee + calculateServiceFee(fee))

\* an intent is created with the amounts of the fee stored at that time
CreatedFromStoredFee ==
  Len(intents') > Len(intents) =>
    LET pi == intents'[Len(intents')] IN
      IF pi.type = "club_membership"
        THEN MetadataOf(pi, FindClub(pi.clubId).fee)
        ELSE MetadataOf(pi, EventFee(FindEvent(pi.eventId)))

\* the metadata of an intent never changes
MetadataKept ==
  \A i \in DOMAIN intents :
    /\ i \in DOMAIN intents'
    /\ intents'[i].fee = intents[i].fee
    /\ intents'[i].serviceFee = intents[i].serviceFee
    /\ intents'[i].totalAmount = intents[i].totalAmount

\* the amounts of a paid record are those of its intent
AmountsOf(x, fee) ==
  /\ MetadataOf(IntentOf(x), fee)
  /\ x.serviceFee = calculateServiceFee(fee)
  /\ x.amount = fee + calculateServiceFee(fee)

RecordsCarryIntentAmounts ==
  /\ \A m \in memberships : m.paymentStatus = "paid" => AmountsOf(m, m.membershipFee)
  /\ \A r \in registrations : r.paymentStatus = "paid" => AmountsOf(r, r.eventFee)

\* C25: an intent's metadata holds the fee stored when the intent is created, its
\* service fee and their sum, it never changes, and amount, membershipFee /
\* eventFee and serviceFee of every paid record are the values of that metadata,
\* whatever the fee of the club or event is when the payment is confirmed.
C25_IntentTimeAmounts ==
  /\ [][CreatedFromStoredFee /\ MetadataKept]_vars
  /\ []RecordsCarryIntentAmounts

\* a paid record confirmed after the fee of its club or event was changed
C25_Witness ==
  \E p \in Procs :
    /\ req[p].pc = "done" /\ req[p].res = "ok"
    /\ \/ /\ req[p].op = "clubConfirm"
          /\ \E m \in memberships :
               m.id = req[p].out /\ FindClub(m.clubId).exists
                 /\ FindClub(m.clubId).fee # m.membershipFee
       \/ /\ req[p].op = "confirm"
          /\ \E r \in registrations :
               r.id = req[p].out /\ FindEvent(r.eventId).exists
                 /\ EventFee(FindEvent(r.eventId)) # r.eventFee

\* the presentation bands of a membership
Bands == {"active", "expired", "renew_soon", "pending"}

OtherClub == "c2"
OtherEvent == "e2"

\* The store holds club c1, whose deletion has been requested, and club c2 of the
\* same or of another name, created by POST /admin/clubs, with an event created by
\* POST /admin/events, a registration for that event and a member.
InitFrame ==
  /\ app = Running
  /\ users = SeedUsers
  /\ \E n \in ClubNames \cup {"n2"} :
       /\ clubs = [o \in ClubOids \cup {OtherClub} |->
                    IF o = OtherClub THEN [AdminClub(n, "m1", 0) EXCEPT !.memberCount = 1]
                    ELSE [AdminClub("n1", "m1", 0) EXCEPT !.deletionRequest = "pending"]]
       /\ \E ev \in {NoEvent, AdminEvent("c1", "n1", 0, 0), AdminEvent("c1", "n1", 0, 1)} :
            events = [o \in EventOids \cup {OtherEvent} |->
                        IF o = OtherEvent THEN AdminEvent(OtherClub, n, 0, 0) ELSE ev]
  /\ memberships = {FreeMembership(1, "u2", Str(OtherClub, "lower"))}
  /\ registrations = {FreeRegistration(1, "u2", Str(OtherEvent, "lower"))}
  /\ intents = <<>>
  /\ nextMem = 2
  /\ nextReg = 2
  /\ req = [p \in Procs |-> Idle]

\* Free joins and registrations for club c1 and the approval of its deletion, one
\* request at a time.
NextFrame ==
  \E p \in Procs :
    \/ Serial(p) /\ RegisterFreeFindEvent(p)
    \/ Serial(p) /\ RegisterFreeExisting(p)
    \/ Serial(p) /\ RegisterFreeCount(p)
    \/ Serial(p) /\ RegisterFreeInsert(p)
    \/ Serial(p) /\ ClubRegisterFreeFindClub(p)
    \/ Serial(p) /\ ClubRegisterFreeExisting(p)
    \/ Serial(p) /\ ClubRegisterFreeInsert(p)
    \/ Serial(p) /\ ClubRegisterFreeInc(p)
    \/ Serial(p) /\ ApproveDeletionFindClub(p)
    \/ Serial(p) /\ ApproveDeletionFindEvents(p)
    \/ Serial(p) /\ ApproveDeletionRegistrations(p)
    \/ Serial(p) /\ ApproveDeletionEvents(p)
    \/ Serial(p) /\ ApproveDeletionMemberships(p)
    \/ Serial(p) /\ ApproveDeletionClub(p)
    \/ Serial(p) /\ Respond(p)
SpecFrame == InitFrame /\ [][NextFrame]_vars

\* C27: the approval of the deletion of club c1 leaves club c2, its event, the
\* registrations for that event and its memberships as they are, also when c2
\* has the name of c1.
C27_OtherClubUntouched ==
  [][/\ clubs'[OtherClub] = clubs[OtherClub]
     /\ events'[OtherEvent] = events[OtherEvent]
     /\ \A r \in registrations : RefersTo(r.eventId, OtherEvent) => r \in registrations'
     /\ \A m \in memberships : RefersTo(m.clubId, OtherClub) => m \in memberships']_vars

\* ------------------------------------------------------- cancelled events
\* Both registration paths of events, one request at a time, while the admin edits
\* and cancels events and payers complete their payments.
NextCancelled ==
  \/ \E p \in Procs :
       \/ Serial(p) /\ AdminCreateClubFindManager(p)
       \/ Serial(p) /\ AdminCreateClubInsert(p)
       \/ Serial(p) /\ AdminCreateEventFindClub(p)
       \/ Serial(p) /\ AdminCreateEventInsert(p)
       \/ Serial(p) /\ AdminUpdateEvent(p, EventStatusAndFee)
       \/ Serial(p) /\ RegisterFreeFindEvent(p)
       \/ Serial(p) /\ RegisterFreeExisting(p)
       \/ Serial(p) /\ RegisterFreeCount(p)
       \/ Serial(p) /\ RegisterFreeInsert(p)
       \/ Serial(p) /\ CreateIntentFindEvent(p)
       \/ Serial(p) /\ CreateIntentExisting(p)
       \/ Serial(p) /\ CreateIntentCount(p)
       \/ Serial(p) /\ CreateIntentStripe(p)
       \/ Serial(p) /\ ConfirmRetrieve(p)
       \/ Serial(p) /\ ConfirmExisting(p)
       \/ Serial(p) /\ ConfirmFindEvent(p)
       \/ Serial(p) /\ ConfirmInsert(p)
       \/ Serial(p) /\ Respond(p)
  \/ Quiet /\ PaymentSucceeds
SpecCancelled == Init /\ [][NextCancelled]_vars

\* C28: when a registration is inserted, by register-free or by confirm, the status
\* of its event is not cancelled.
C28_NoRegistrationForCancelled ==
  [][\A r \in registrations' \ registrations :
       FindEvent(ObjectId(r.eventId)).status # "cancelled"]_vars

\* --------------------------------------------------- memberships past expiry
\* The store holds a club and the membership that user u1 paid for through
\* POST /club/confirm, with its expiry date at instant 5; the club's fee is as it
\* was or has been set to 0 since.
InitExpired ==
  /\ app = Running
  /\ users = SeedUsers
  /\ \E f \in Fees :
       clubs = [o \in ClubOids |-> [AdminClub("n1", "m1", f) EXCEPT !.memberCount = 1]]
  /\ events = [o \in EventOids |-> NoEvent]
  /\ LET pi == [ClubIntent("u1", Str("c1", "lower"), 500) EXCEPT !.status = "succeeded"] IN
       /\ intents = <<pi>>
       /\ memberships = {[PaidMembership(1, "u1", Str("c1", "lower"), 1, pi, 0) EXCEPT
                            !.expiryDate = 5]}
  /\ registrations = {}
  /\ nextMem = 2
  /\ nextReg = 1
  /\ req = [p \in Procs |-> Idle]

\* Members list their clubs at any instant and ask to join on either path, one
\* request at a time, while payers complete their payments.
NextExpired ==
  \/ \E p \in Procs :
       \/ Serial(p) /\ ListClubsFind(p)
       \/ Serial(p) /\ ListClubsDetails(p)
       \/ Serial(p) /\ ClubRegisterFreeFindClub(p)
       \/ Serial(p) /\ ClubRegisterFreeExisting(p)
       \/ Serial(p) /\ ClubRegisterFreeInsert(p)
       \/ Serial(p) /\ ClubRegisterFreeInc(p)
       \/ Serial(p) /\ ClubCreateIntentFindClub(p)
       \/ Serial(p) /\ ClubCreateIntentExisting(p)
       \/ Serial(p) /\ ClubCreateIntentStripe(p)
       \/ Serial(p) /\ ClubConfirmRetrieve(p)
       \/ Serial(p) /\ ClubConfirmExisting(p)
       \/ Serial(p) /\ ClubConfirmFindClub(p)
       \/ Serial(p) /\ ClubConfirmInsert(p)
       \/ Serial(p) /\ ClubConfirmInc(p)
       \/ Serial(p) /\ Respond(p)
  \/ Quiet /\ PaymentSucceeds
SpecExpired == InitExpired /\ [][NextExpired]_vars

\* every membership is kept with the status it was stored with
StatusKept ==
  \A m \in memberships : \E n \in memberships' : n.id = m.id /\ n.status = m.status

\* the requests that ask for a membership
MembershipOps == {"clubRegisterFree", "clubCreateIntent", "clubConfirm"}

\* a request for a (user, club) pair that has a membership stored as active or
\* pending, its own insertion apart, is not answered with success
MemberRefused(p) ==
  (req[p].op \in MembershipOps /\ req[p].pc = "done"
     /\ OtherLive(req[p].user, req[p].id, IF req[p].op = "clubCreateIntent" THEN 0
                                          ELSE req[p].out) # {})
  => req[p].res # "ok"

\* C29: no request changes the stored status of a membership, so the membership
\* whose expiry date has passed stays stored as active, and every later
\* register-free, create-intent or confirm request of its user for its club fails.
C29_ExpiredStillMember ==
  /\ [][StatusKept]_vars
  /\ [](\A p \in Procs : MemberRefused(p))

\* ------------------------------------------------------------- categories
\* the categories collection holds at most this many documents when a category is
\* created
MaxCategories == 8

\* the bodies of POST /admin/categories; "-" is an absent field
CategoryBodies ==
  {[name |-> "Chess", displayName |-> "Chess"],
   [name |-> "sports", displayName |-> "Sports"],
   [name |-> "Chess", displayName |-> "Sports & Fitness"],
   [name |-> "-", displayName |-> "Chess"]}

\* the process that serves a request for the categories: this one, once its routes
\* are initialized, or another process of the deployment on the same collection
Serving == {inst \in {"this", "other"} : inst = "this" => app.routesInitialized}

\* findOne({$or: [{name: name.toLowerCase()}, {displayName}]})
ExistingCategory(body) ==
  \E i \in DOMAIN app.categories :
    \/ app.categories[i].name = toLowerCase(body.name)
    \/ app.categories[i].displayName = body.displayName

\* POST /admin/categories, to the first await
AdminCreateCategoryFind(p) ==
  /\ req[p].op = "idle"
  /\ Serving # {}
  /\ Len(app.categories) < MaxCategories
  /\ \E body \in CategoryBodies :
       LET r == [Idle EXCEPT !.op = "createCategory"] IN
       req' = [req EXCEPT ![p] =
         IF body.name = "-" \/ body.displayName = "-"
           THEN Done(r, "400 Name and display name are required", 0)
         ELSE IF ExistingCategory(body)
           THEN Done(r, "400 Category with this name or display name already exists", 0)
         ELSE [r EXCEPT !.pc = "insert",
                        !.category = [name |-> toLowerCase(body.name),
                                      displayName |-> body.displayName]]]
  /\ UNCHANGED <<app, users, Database, intents>>

\* POST /admin/categories: categoriesCollection.insertOne(category)
AdminCreateCategoryInsert(p) ==
  /\ req[p].op = "createCategory" /\ req[p].pc = "insert"
  /\ app' = [app EXCEPT !.categories = Append(@, req[p].category)]
  /\ req' = [req EXCEPT ![p] = Done(req[p], "201 Category created successfully", 0)]
  /\ UNCHANGED <<users, Database, intents>>

\* The documents of the collection are told apart by their place in it. The ids of
\* the requests: of the oldest document, of the newest, and of none.
CategoryIds == {0, 1, Len(app.categories)}

\* DELETE /admin/categories/:id, to the first await: findOne({_id})
AdminDeleteCategoryFind(p) ==
  /\ req[p].op = "idle"
  /\ Serving # {}
  /\ \E k \in CategoryIds :
       LET r == [Idle EXCEPT !.op = "deleteCategory"] IN
       req' = [req EXCEPT ![p] =
         IF k \notin DOMAIN app.categories THEN Done(r, "404 Category not found", 0)
         ELSE [r EXCEPT !.pc = "count", !.cat = k, !.category = app.categories[k]]]
  /\ UNCHANGED <<app, users, Database, intents>>

\* clubsCollection.countDocuments({category: category.name})
CountClubsOfCategory(name) ==
  Cardinality({o \in ClubOids : clubs[o].exists /\ clubs[o].category = name})

AdminDeleteCategoryCount(p) ==
  /\ req[p].op = "deleteCategory" /\ req[p].pc = "count"
  /\ req' = [req EXCEPT ![p] =
       IF CountClubsOfCategory(req[p].category.name) > 0
         THEN Done(req[p], "400 Cannot delete category. It is being used", 0)
       ELSE [req[p] EXCEPT !.pc = "delete"]]
  /\ UNCHANGED <<app, users, Database, intents>>

\* the sequence without its k-th element
RemoveAt(seq, k) == SubSeq(seq, 1, k - 1) \o SubSeq(seq, k + 1, Len(seq))

\* the place a request holds once the k-th document is gone: 0 when it held that one
PlaceAfter(place, k) == IF place = k THEN 0 ELSE IF place > k THEN place - 1 ELSE place

\* DELETE /admin/categories/:id: deleteOne({_id})
AdminDeleteCategoryDelete(p) ==
  /\ req[p].op = "deleteCategory" /\ req[p].pc = "delete"
  /\ LET k == req[p].cat IN
       IF k = 0
         THEN /\ app' = app
              /\ req' = [req EXCEPT ![p] = Done(req[p], "404 Category not found", 0)]
         ELSE /\ app' = [app EXCEPT !.categories = RemoveAt(@, k)]
              /\ req' = [q \in Procs |->
                   IF q = p THEN Done(req[p], "Category deleted successfully", 0)
                   ELSE [req[q] EXCEPT !.cat = PlaceAfter(@, k)]]
  /\ UNCHANGED <<users, Database, intents>>

\* The admin creates clubs and creates and deletes categories, the steps of the
\* requests interleaved.
NextCategories ==
  \E p \in Procs :
    \/ AdminCreateClubFindManager(p)
    \/ AdminCreateClubInsert(p)
    \/ AdminCreateCategoryFind(p)
    \/ AdminCreateCategoryInsert(p)
    \/ AdminDeleteCategoryFind(p)
    \/ AdminDeleteCategoryCount(p)
    \/ AdminDeleteCategoryDelete(p)
    \/ Respond(p)
SpecCategories == Init /\ [][NextCategories]_vars

\* ---------------------------------------------- route and collection initialization
\* A process that has just started under the serverless deployment: nothing is
\* connected or mounted, and the routes are initialized by the first requests.
Fresh(cats) == [routesInitialized |-> FALSE, isConnected |-> FALSE, authMounted |-> 0,
                mounted |-> 0, categories |-> cats]

\* categoriesCollection.countDocuments()
countDocuments(cats) == Len(cats)

\* The categories collection a process finds at its start: empty, holding the
\* defaults of an earlier process, or what the admin has left of them.
StoredCategories == {<< >>, defaultCategories, <<defaultCategories[1]>>}

InitFresh ==
  /\ clubs = [o \in ClubOids |-> NoClub]
  /\ events = [o \in EventOids |-> NoEvent]
  /\ memberships = {}
  /\ registrations = {}
  /\ intents = <<>>
  /\ nextMem = 1
  /\ nextReg = 1
  /\ req = [p \in Procs |-> Idle]
  /\ users = SeedUsers
  /\ \E cats \in StoredCategories : app = Fresh(cats)

\* The middleware calls initializeRoutes(): it returns at once when
\* app.routesInitialized is set, and otherwise awaits connectToDatabase().
InitializeRoutes(p) ==
  /\ req[p].op = "idle"
  /\ IF app.routesInitialized
     THEN req' = [req EXCEPT ![p] = Done([Idle EXCEPT !.op = "initializeRoutes"], "next", 0)]
     ELSE req' = [req EXCEPT ![p] = [Idle EXCEPT !.op = "initializeRoutes", !.pc = "connect"]]
  /\ UNCHANGED <<app, users, Database, intents>>

\* connectToDatabase() resolves: isConnected is set, the auth router is mounted and
\* initAdminRoutes awaits categoriesCollection.countDocuments().
InitializeRoutesConnected(p) ==
  /\ req[p].op = "initializeRoutes" /\ req[p].pc = "connect"
  /\ app' = [app EXCEPT !.isConnected = TRUE, !.authMounted = @ + 1]
  /\ req' = [req EXCEPT ![p].pc = "count"]
  /\ UNCHANGED <<users, Database, intents>>

\* client.connect() rejects: initializeRoutes rethrows and the middleware answers 500.
InitializeRoutesConnectFails(p) ==
  /\ req[p].op = "initializeRoutes" /\ req[p].pc = "connect"
  /\ ~app.isConnected
  /\ req' = [req EXCEPT ![p] = Done(req[p], "500 Server initialization error", 0)]
  /\ UNCHANGED <<app, users, Database, intents>>

\* initAdminRoutes: countDocuments() resolves; the defaults are inserted only when
\* the count is 0.
InitAdminRoutesCount(p) ==
  /\ req[p].op = "initializeRoutes" /\ req[p].pc = "count"
  /\ req' = [req EXCEPT ![p].pc = IF countDocuments(app.categories) = 0
                                  THEN "insert" ELSE "mount"]
  /\ UNCHANGED <<app, users, Database, intents>>

\* initAdminRoutes: insertMany(defaultCategories)
InitAdminRoutesInsert(p) ==
  /\ req[p].op = "initializeRoutes" /\ req[p].pc = "insert"
  /\ app' = [app EXCEPT !.categories = @ \o defaultCategories]
  /\ req' = [req EXCEPT ![p].pc = "mount"]
  /\ UNCHANGED <<users, Database, intents>>

\* initAdminRoutes has returned: the admin, manager, member and payment routers and
\* the public endpoints are mounted, app.routesInitialized is set and the
\* middleware calls next().
InitializeRoutesMount(p) ==
  /\ req[p].op = "initializeRoutes" /\ req[p].pc = "mount"
  /\ app' = [app EXCEPT !.mounted = @ + 1, !.routesInitialized = TRUE]
  /\ req' = [req EXCEPT ![p] = Done(req[p], "next", 0)]
  /\ UNCHANGED <<users, Database, intents>>

\* Requests arrive at a fresh process and run the route-initialization middleware,
\* interleaved at its awaits, while the admin creates and deletes categories.
NextFresh ==
  \/ \E p \in Procs : InitializeRoutes(p)
  \/ \E p \in Procs : InitializeRoutesConnected(p)
  \/ \E p \in Procs : InitializeRoutesConnectFails(p)
  \/ \E p \in Procs : InitAdminRoutesCount(p)
  \/ \E p \in Procs : InitAdminRoutesInsert(p)
  \/ \E p \in Procs : InitializeRoutesMount(p)
  \/ \E p \in Procs : AdminCreateCategoryFind(p)
  \/ \E p \in Procs : AdminCreateCategoryInsert(p)
  \/ \E p \in Procs : AdminDeleteCategoryFind(p)
  \/ \E p \in Procs : AdminDeleteCategoryCount(p)
  \/ \E p \in Procs : AdminDeleteCategoryDelete(p)
  \/ \E p \in Procs : Respond(p)

SpecFresh == InitFresh /\ [][NextFresh]_vars

\* C30: initialization takes effect at most once per process: the routers are
\* mounted at most once and no default category name is stored twice, even when
\* several requests arrive before the first initializeRoutes call has finished.
C30_InitializedOnce ==
  /\ app.authMounted <= 1
  /\ app.mounted <= 1
  /\ \A i, j \in DOMAIN app.categories :
       (app.categories[i].name = app.categories[j].name
          /\ \E k \in DOMAIN defaultCategories :
               defaultCategories[k].name = app.categories[i].name)
       => i = j

====
